---- MODULE Spec2Model ----
(***************************************************************************)
(* A model of chview's lineage engine: the reference parser                *)
(* (lineage/parser.py), the lineage graph builder (lineage/graph.py) and   *)
(* the layout and connectivity engine (lineage/layout.py).                 *)
(*                                                                         *)
(* Strings are sequences of one-character strings, so that the regular     *)
(* expressions, str.replace, str.strip, str.split and the lexicographic    *)
(* order of Python are computed character by character.                    *)
(*                                                                         *)
(* y-coordinates are kept doubled (y2 = 2*y): every y the layout produces  *)
(* is a multiple of 0.5, so the doubled value is an exact integer.         *)
(***************************************************************************)
EXTENDS Integers, Sequences, FiniteSets, TLC

VARIABLES
    \* ---- parser (lineage/parser.py) ----
    create_query,     \* the DDL text handed to the parser
    mv_database,      \* the view's database
    mv_name,          \* the view's name
    sources_out,      \* result of parse_source_tables, or NotRun
    target_out,       \* result of parse_target_table, or NotRun
    \* ---- graph builder (lineage/graph.py) ----
    mv_df,            \* the view records, in input order
    engine_lookup,    \* full_name -> engine, from schema_df
    row_idx,          \* number of rows whose loop body has started
    build_pc,         \* position in build_lineage
    sources,          \* merged source list of the current row
    src_idx,          \* number of sources of the current row already handled
    \* ---- LineageGraph ----
    nodes,            \* dict full_name -> TableNode, as a sequence in insertion order
    edges,            \* list of LineageEdge
    mv_names,         \* set of full_name
    target_names,     \* set of full_name
    \* ---- calculate_positions (lineage/layout.py) ----
    phase,            \* position in calculate_positions / get_connected_subgraph
    levels,           \* dict node_id -> int
    visiting,         \* set of node_id
    stack,            \* call stack of get_level: frames [node, incoming, i, best]
    call,             \* argument of the get_level call about to start, or None
    next_idx,         \* number of nodes the outer loop has called get_level on
    positions,        \* dict node_id -> (x, y2)
    selected_id,      \* argument of get_connected_subgraph, or None
    connected,        \* the connected set of get_connected_subgraph, its result in the end
    bfs_queue,        \* queue of the traversal in progress
    bfs_dir,          \* the traversal in progress: "none", "downstream" or "upstream"
    enqueued,         \* history: every element put on a queue, as <<direction, node>>
    \* ---- render_lineage_graph (lineage/renderer.py) ----
    cached_positions, \* st.session_state["_lineage_positions"] as the renderer read it
    flow_positions,   \* the positions handed to _build_flow_state
    \* ---- st.session_state and the script runs (renderer.py, pages/lineage.py) ----
    lineage_highlight,    \* st.session_state["lineage_highlight"], or None
    lineage_skip_result,  \* st.session_state["_lineage_skip_result"]
    lineage_state,        \* the entries "_lineage_state_{highlight}": dict highlight -> flow state
    ever_rendered,        \* st.session_state["_lineage_ever_rendered"]
    rerun,                \* the st.rerun() not yet served: "none", "click" or "clear"
    last_render,          \* history: the latest call of render_lineage_graph, or None
    render_count          \* history: number of calls of render_lineage_graph

parserVars == <<create_query, mv_database, mv_name, sources_out, target_out>>
buildVars  == <<mv_df, engine_lookup, row_idx, build_pc, sources, src_idx>>
graphVars  == <<nodes, edges, mv_names, target_names>>
bfsVars    == <<bfs_queue, bfs_dir, enqueued>>
sessionVars == <<lineage_highlight, lineage_skip_result, lineage_state, ever_rendered,
                 rerun, last_render, render_count>>
layoutVars == <<phase, levels, visiting, stack, call, next_idx,
                positions, selected_id, connected, cached_positions, flow_positions, bfsVars,
                sessionVars>>
vars == <<parserVars, buildVars, graphVars, layoutVars>>

\* An optional value is a sequence of length at most one: <<>> is None, <<v>> is v.
None    == <<>>
Some(v) == <<v>>
NotRun  == <<>>

(***************************************************************************)
(* Characters.  Ascii lists the printable characters 32..126 in code-point *)
(* order; tab and newline are 9 and 10.                                    *)
(***************************************************************************)
\* the backquote character, code point 96 (a TLA+ string cannot hold it)
Backtick == "<backquote>"

Ascii ==
    << " ", "!", "\"", "#", "$", "%", "&", "'", "(", ")", "*", "+", ",", "-", ".", "/",
       "0", "1", "2", "3", "4", "5", "6", "7", "8", "9", ":", ";", "<", "=", ">", "?",
       "@", "A", "B", "C", "D", "E", "F", "G", "H", "I", "J", "K", "L", "M", "N", "O",
       "P", "Q", "R", "S", "T", "U", "V", "W", "X", "Y", "Z", "[", "\\", "]", "^", "_",
       Backtick, "a", "b", "c", "d", "e", "f", "g", "h", "i", "j", "k", "l", "m", "n", "o",
       "p", "q", "r", "s", "t", "u", "v", "w", "x", "y", "z", "{", "|", "}", "~" >>

Chars == {Ascii[i] : i \in 1..Len(Ascii)} \cup {"\t", "\n"}

\* ord(c)
OrdOf ==
    [c \in Chars |->
        IF c = "\t" THEN 9
        ELSE IF c = "\n" THEN 10
        ELSE 31 + (CHOOSE i \in 1..Len(Ascii) : Ascii[i] = c)]

Ord(c) == OrdOf[c]

\* \w of the re module, on ASCII
IsWordChar(c) ==
    LET o == Ord(c)
    IN  (o >= 48 /\ o <= 57) \/ (o >= 65 /\ o <= 90) \/ (o >= 97 /\ o <= 122) \/ o = 95

\* [a-zA-Z_]
IsIdentStart(c) ==
    LET o == Ord(c)
    IN  (o >= 65 /\ o <= 90) \/ (o >= 97 /\ o <= 122) \/ o = 95

\* \s of the re module and the whitespace of str.strip, on the modelled characters
IsSpace(c) == c \in {" ", "\t", "\n"}

\* case folding of re.IGNORECASE, on ASCII
LowerOf ==
    [c \in Chars |->
        IF Ord(c) >= 65 /\ Ord(c) <= 90 THEN Ascii[Ord(c) + 32 - 31] ELSE c]

Lower(c) == LowerOf[c]

\* Python's < on str: lexicographic by code point
RECURSIVE StrLess(_, _)
StrLess(a, b) ==
    IF a = <<>> THEN b # <<>>
    ELSE IF b = <<>> THEN FALSE
    ELSE IF Head(a) = Head(b) THEN StrLess(Tail(a), Tail(b))
    ELSE Ord(Head(a)) < Ord(Head(b))

\* min(S) for a non-empty set of str
StrMin(S) == CHOOSE a \in S : \A b \in S : a = b \/ StrLess(a, b)

\* sorted(S) for a set of str
RECURSIVE SortedStrs(_)
\* mutant: the list is built from the greatest element down
SortedFrom_Descending(S, m) == SortedStrs(S \ {m}) \o <<m>>

SortedFrom(S, m) == <<m>> \o SortedStrs(S \ {m})
SortedStrs(S) == IF S = {} THEN <<>> ELSE SortedFrom(S, StrMin(S))

\* the least element of a set of integers, 0 for the empty set
MinOrZero(S) == IF S = {} THEN 0 ELSE CHOOSE i \in S : \A j \in S : i <= j

\* the greatest element of a set of integers, 0 for the empty set
MaxOrZero(S) == IF S = {} THEN 0 ELSE CHOOSE i \in S : \A j \in S : i >= j

\* "x" in s, for a one-character x
Contains(s, c) == \E i \in 1..Len(s) : s[i] = c

\* s.replace(c, "")
RECURSIVE RemoveChar(_, _)
RemoveChar(s, c) ==
    IF s = <<>> THEN <<>>
    ELSE IF Head(s) = c THEN RemoveChar(Tail(s), c)
    ELSE <<Head(s)>> \o RemoveChar(Tail(s), c)

\* s.strip()
StripTo(s, keep) == IF keep = {} THEN <<>> ELSE SubSeq(s, MinOrZero(keep), MaxOrZero(keep))
Strip(s) == StripTo(s, {i \in 1..Len(s) : ~IsSpace(s[i])})

\* s.split(".", 1)
SplitAt(s, d) == IF d = 0 THEN <<s>> ELSE <<SubSeq(s, 1, d - 1), SubSeq(s, d + 1, Len(s))>>
Split1(s) == SplitAt(s, MinOrZero({i \in 1..Len(s) : s[i] = "."}))

(***************************************************************************)
(* lineage/parser.py                                                       *)
(***************************************************************************)
\* mutant: the database is put in front of every reference, dotted or not
QualifyCleaned_AlwaysPrefixed(r, default_database) == default_database \o <<".">> \o r

\* _qualify_table_name, after the backquotes are removed and the whitespace is trimmed
QualifyCleaned(r, default_database) ==
    IF Contains(r, ".") THEN r ELSE default_database \o <<".">> \o r

\* _qualify_table_name
QualifyTableName(table_ref, default_database) ==
    QualifyCleaned(Strip(RemoveChar(table_ref, Backtick)), default_database)

\* whether t[i] exists and is a word character
WordAt(t, i) == i >= 1 /\ i <= Len(t) /\ IsWordChar(t[i])

\* \b between t[i-1] and t[i]
WordBoundary(t, i) == WordAt(t, i - 1) # WordAt(t, i)

\* a literal keyword at t[i..], under re.IGNORECASE
MatchKeyword(t, i, kw) ==
    /\ i + Len(kw) - 1 <= Len(t)
    /\ \A k \in 1..Len(kw) : Lower(t[i + k - 1]) = Lower(kw[k])

\* \s+ at t[i..]: the index after the greedy run of whitespace, 0 if the run is empty
RECURSIVE SpacesEnd(_, _)
SpacesEnd(t, i) ==
    IF i <= Len(t) /\ IsSpace(t[i])
    THEN (IF i + 1 <= Len(t) /\ IsSpace(t[i + 1]) THEN SpacesEnd(t, i + 1) ELSE i + 1)
    ELSE 0

\* \w* at t[i..]: the index after the greedy run of word characters
RECURSIVE WordEnd(_, _)
WordEnd(t, i) ==
    IF i <= Len(t) /\ IsWordChar(t[i]) THEN WordEnd(t, i + 1) ELSE i

\* BQ[^BQ]+BQ at t[i..], BQ the backquote and q the first backquote after t[i] (0 if none)
QuotedEnd(i, q) == IF q > i + 1 THEN q + 1 ELSE 0

\* (?:BQ[^BQ]+BQ|[a-zA-Z_]\w*) at t[i..]: the index after the match, 0 if none
MatchIdent(t, i) ==
    IF i > Len(t) THEN 0
    ELSE IF t[i] = Backtick
    THEN QuotedEnd(i, MinOrZero({j \in (i + 1)..Len(t) : t[j] = Backtick}))
    ELSE IF IsIdentStart(t[i]) THEN WordEnd(t, i + 1)
    ELSE 0

\* the optional group (?:\.ident)? after a first identifier that ends before e1
AfterDot(e1, e2) == IF e2 # 0 THEN e2 ELSE e1
AfterIdent(t, e1) ==
    IF e1 = 0 THEN 0
    ELSE IF e1 <= Len(t) /\ t[e1] = "." THEN AfterDot(e1, MatchIdent(t, e1 + 1))
    ELSE e1

\* table_pattern at t[i..]: the index after the match, 0 if none
MatchTablePattern(t, i) == AfterIdent(t, MatchIdent(t, i))

NoMatch == <<0, 0>>

\* \bKW\s+(table_pattern) at t[i..]: <<start of group 1, index after the match>>, or NoMatch
ClauseSpan(s, e) == IF e = 0 THEN NoMatch ELSE <<s, e>>
ClauseAfterSpaces(t, s) == IF s = 0 THEN NoMatch ELSE ClauseSpan(s, MatchTablePattern(t, s))
MatchClauseAt(t, i, kw) ==
    IF i >= 1 /\ WordBoundary(t, i) /\ MatchKeyword(t, i, kw)
    THEN ClauseAfterSpaces(t, SpacesEnd(t, i + Len(kw)))
    ELSE NoMatch

\* re.search, and one step of re.finditer: the match with the leftmost start >= from
SearchClause(t, from, kw) ==
    MatchClauseAt(t, MinOrZero({i \in from..Len(t) : MatchClauseAt(t, i, kw) # NoMatch}), kw)

\* m.group(1)
Group1(t, m) == SubSeq(t, m[1], m[2] - 1)

\* re.finditer(rf"\bKW\s+({table_pattern})", t): the qualified group(1) of every match
RECURSIVE FindClauses(_, _, _, _)
FindClausesFrom(t, m, kw, db) ==
    IF m = NoMatch THEN {}
    ELSE {QualifyTableName(Group1(t, m), db)} \cup FindClauses(t, m[2], kw, db)
FindClauses(t, from, kw, db) == FindClausesFrom(t, SearchClause(t, from, kw), kw, db)

KwAS     == <<"A", "S">>
KwSELECT == <<"S", "E", "L", "E", "C", "T">>
KwFROM   == <<"F", "R", "O", "M">>
KwJOIN   == <<"J", "O", "I", "N">>
KwTO     == <<"T", "O">>

\* SELECT\b at t[s..], s the index after \s+ (0 if \s+ does not match)
SelectAt(t, s) ==
    /\ s # 0
    /\ MatchKeyword(t, s, KwSELECT)
    /\ WordBoundary(t, s + Len(KwSELECT))

\* mutant: anything may stand between AS and SELECT
MatchAsSelectAt_AnyGap(t, i) ==
    /\ WordBoundary(t, i)
    /\ MatchKeyword(t, i, KwAS)
    /\ \E s \in (i + Len(KwAS) + 1)..Len(t) : WordBoundary(t, s) /\ SelectAt(t, s)

\* \bAS\s+SELECT\b at t[i..]
MatchAsSelectAt(t, i) ==
    /\ WordBoundary(t, i)
    /\ MatchKeyword(t, i, KwAS)
    /\ SelectAt(t, SpacesEnd(t, i + Len(KwAS)))

\* re.search(r"\bAS\s+SELECT\b", ...).start(), 0 if None
SearchAsSelect(t) == MinOrZero({i \in 1..Len(t) : MatchAsSelectAt(t, i)})

\* lines 38-50: the FROM and the JOIN references of select_part, sorted
SourcesOfSelect(select_part, db) ==
    SortedStrs(FindClauses(select_part, 1, KwFROM, db)
                   \cup FindClauses(select_part, 1, KwJOIN, db))

\* lines 34-38
SourcesAfter(query, start, db) ==
    IF start = 0 THEN <<>> ELSE SourcesOfSelect(SubSeq(query, start, Len(query)), db)

\* parse_source_tables
ParseSourceTables(query, db) == SourcesAfter(query, SearchAsSelect(query), db)

\* the implicit storage table of a view: mv_database + ".BQ.inner." + mv_name + "BQ"
InnerName(db, name) ==
    db \o <<".", Backtick, ".", "i", "n", "n", "e", "r", ".">> \o name \o <<Backtick>>

\* mutant: without a TO clause the view itself is taken as its target
TargetOfMatch_NoInner(query, to_match, db, name) ==
    IF to_match # NoMatch
    THEN <<QualifyTableName(Group1(query, to_match), db), FALSE>>
    ELSE <<db \o <<".">> \o name, TRUE>>

\* lines 69-71
TargetOfMatch(query, to_match, db, name) ==
    IF to_match # NoMatch
    THEN <<QualifyTableName(Group1(query, to_match), db), FALSE>>
    ELSE <<InnerName(db, name), TRUE>>

\* parse_target_table
ParseTargetTable(query, db, name) ==
    TargetOfMatch(query, SearchClause(query, 1, KwTO), db, name)

(***************************************************************************)
(* Idle values of the variables an operation does not use.                 *)
(***************************************************************************)
ParserIdle ==
    /\ create_query = <<>>
    /\ mv_database = <<>>
    /\ mv_name = <<>>
    /\ sources_out = NotRun
    /\ target_out = NotRun

BuildIdle ==
    /\ mv_df = <<>>
    /\ engine_lookup = <<>>
    /\ row_idx = 0
    /\ build_pc = "idle"
    /\ sources = <<>>
    /\ src_idx = 0

\* LineageGraph(): the empty graph
GraphEmpty ==
    /\ nodes = <<>>
    /\ edges = <<>>
    /\ mv_names = {}
    /\ target_names = {}

LayoutIdle ==
    /\ phase = "idle"
    /\ levels = <<>>
    /\ visiting = {}
    /\ stack = <<>>
    /\ call = None
    /\ next_idx = 0
    /\ positions = <<>>
    /\ selected_id = None
    /\ connected = {}
    /\ cached_positions = <<>>
    /\ flow_positions = <<>>
    /\ bfs_queue = <<>>
    /\ bfs_dir = "none"
    /\ enqueued = <<>>
    /\ lineage_highlight = <<>>
    /\ lineage_skip_result = FALSE
    /\ lineage_state = <<>>
    /\ ever_rendered = FALSE
    /\ rerun = "none"
    /\ last_render = <<>>
    /\ render_count = 0

(***************************************************************************)
(* The parser on its own: a DDL text is drawn from the concatenations of   *)
(* at most MaxParts pieces, and the two parser functions are applied.      *)
(***************************************************************************)
MaxParts == 3

DdlParts ==
    { <<"T", "O", " ">>,
      <<"t", "o", "\n">>,
      <<"T", "O">>,
      <<"t">>,
      <<"1">>,
      <<".">>,
      <<" ">>,
      <<Backtick, "q", Backtick>>,
      <<Backtick, " ", "q", " ", Backtick>>,
      <<Backtick, "p", ".", "q", Backtick>>,
      <<Backtick>>,
      <<"A", "S", " ", "S", "E", "L", "E", "C", "T", " ">>,
      <<"F", "R", "O", "M", " ">>,
      <<"j", "o", "i", "n", " ">> }

RECURSIVE Concat(_)
Concat(ps) == IF ps = <<>> THEN <<>> ELSE Head(ps) \o Concat(Tail(ps))

DdlTexts == {Concat(ps) : ps \in UNION {[1..n -> DdlParts] : n \in 0..MaxParts}}

ViewDatabases == {<<"d">>}
ViewNames     == {<<"v">>, <<"t", "o">>}

ParseInit ==
    /\ create_query \in DdlTexts
    /\ mv_database \in ViewDatabases
    /\ mv_name \in ViewNames
    /\ sources_out = NotRun
    /\ target_out = NotRun
    /\ BuildIdle /\ GraphEmpty /\ LayoutIdle

\* a call of parse_source_tables(create_query, mv_database)
CallParseSourceTables ==
    /\ sources_out = NotRun
    /\ sources_out' = Some(ParseSourceTables(create_query, mv_database))
    /\ UNCHANGED <<create_query, mv_database, mv_name, target_out>>
    /\ UNCHANGED <<buildVars, graphVars, layoutVars>>

\* a call of parse_target_table(create_query, mv_database, mv_name)
CallParseTargetTable ==
    /\ target_out = NotRun
    /\ target_out' = Some(ParseTargetTable(create_query, mv_database, mv_name))
    /\ UNCHANGED <<create_query, mv_database, mv_name, sources_out>>
    /\ UNCHANGED <<buildVars, graphVars, layoutVars>>

ParseNext == CallParseSourceTables \/ CallParseTargetTable

SpecParse == ParseInit /\ [][ParseNext]_vars



(***************************************************************************)
(* lineage/graph.py                                                        *)
(***************************************************************************)
\* A dict is a sequence of entries [key |-> k, ...] in insertion order.
Keys(d) == {d[i].key : i \in 1..Len(d)}

KeyList(d) == [i \in 1..Len(d) |-> d[i].key]

\* d[k], for a key of d
DictGet(d, k) == d[CHOOSE i \in 1..Len(d) : d[i].key = k]

\* d[k] = v: an existing key keeps its place and gets the new value
DictSet(d, entry) ==
    IF entry.key \in Keys(d)
    THEN [i \in 1..Len(d) |-> IF d[i].key = entry.key THEN entry ELSE d[i]]
    ELSE Append(d, entry)

\* f"{a}.{b}"
Dotted(a, b) == a \o <<".">> \o b

\* TableNode(database, name, engine), stored under key; __post_init__ fills full_name
TableNode(key, database, name, engine) ==
    [key |-> key, database |-> database, name |-> name, engine |-> engine,
     full_name |-> Dotted(database, name)]

\* mutant: source and target are swapped
LineageEdge_Reversed(source, target, mv) ==
    [source |-> target, target |-> source, mv_name |-> mv]

\* LineageEdge(source, target, mv_name)
LineageEdge(source, target, mv) == [source |-> source, target |-> target, mv_name |-> mv]

\* lines 60-64: the engine lookup built from schema_df; later rows overwrite earlier ones
RECURSIVE EngineLookup(_)
EngineLookup(schema_df) ==
    IF schema_df = <<>> THEN <<>>
    ELSE DictSet(EngineLookup(SubSeq(schema_df, 1, Len(schema_df) - 1)),
                 [key    |-> Dotted(schema_df[Len(schema_df)].database,
                                    schema_df[Len(schema_df)].name),
                  engine |-> schema_df[Len(schema_df)].engine])

\* zip(deps_db, deps_table)
Zip(a, b) == [i \in 1..(IF Len(a) < Len(b) THEN Len(a) ELSE Len(b)) |-> <<a[i], b[i]>>]

InSeq(x, q) == \E i \in 1..Len(q) : q[i] = x

\* mutant: a dependency is appended even when sources holds it already
AppendIfNew_Always(srcs, dep_full) == Append(srcs, dep_full)

\* lines 83-84
AppendIfNew(srcs, dep_full) == IF InSeq(dep_full, srcs) THEN srcs ELSE Append(srcs, dep_full)

\* lines 81-84: append each dependency pair that is not yet in sources
RECURSIVE MergeDeps(_, _)
MergeDeps(srcs, pairs) ==
    IF pairs = <<>> THEN srcs
    ELSE MergeDeps(AppendIfNew(srcs, Dotted(Head(pairs)[1], Head(pairs)[2])), Tail(pairs))

\* a dependencies_* field: a list of strings, or a value that is no list (None, NaN)
ListOf(items) == [is_list |-> TRUE, items |-> items]
NotAList      == [is_list |-> FALSE, items |-> <<>>]

\* isinstance(x, (list, tuple))
IsList(x) == x.is_list

\* lines 78-84: the explicit dependencies are merged into the parsed sources
MergeRowDeps(row, parsed) ==
    IF IsList(row.dependencies_database) /\ IsList(row.dependencies_table)
    THEN MergeDeps(parsed, Zip(row.dependencies_database.items, row.dependencies_table.items))
    ELSE parsed

\* lines 75-84
MergedSources(row) ==
    MergeRowDeps(row, ParseSourceTables(row.create_table_query, row.database))

MaterializedView == "MaterializedView"

\* line 70
MvFullName(row) == Dotted(row.database, row.name)

\* lines 88-90 and 97-99: the database and the name of a discovered table
DbOfParts(parts, db) == IF Len(parts) > 1 THEN parts[1] ELSE db
NameOfParts(parts)   == IF Len(parts) > 1 THEN parts[2] ELSE parts[1]

\* lines 88-92 and 97-103: the node of a discovered table
DiscoveredNode(full, parts, db, engine) ==
    TableNode(full, DbOfParts(parts, db), NameOfParts(parts), engine)

\* mutant: the registration of a discovered table is forgotten
RegisterIfAbsent_Forgotten(d, full, db, engine) == d

\* mutant: the "not in lineage.nodes" test is dropped, so a later discovery overwrites
RegisterIfAbsent_Overwrites(d, full, db, engine) ==
    DictSet(d, DiscoveredNode(full, Split1(full), db, engine))

\* lines 87-92 and 96-103: a discovered table becomes a node unless its name is one already
RegisterIfAbsent(d, full, db, engine) ==
    IF full \notin Keys(d)
    THEN DictSet(d, DiscoveredNode(full, Split1(full), db, engine))
    ELSE d

\* mutant: the view's node is stored only when its name has no node yet
RegisterViewNode_IfAbsent(d, row) ==
    IF MvFullName(row) \in Keys(d) THEN d
    ELSE DictSet(d, TableNode(MvFullName(row), row.database, row.name, MaterializedView))

\* line 72: the view's node is stored, whatever was stored under its name
RegisterViewNode(d, row) ==
    DictSet(d, TableNode(MvFullName(row), row.database, row.name, MaterializedView))

\* mutant: the lookup is not consulted for a source
SourceEngine_Sentinel(source) == "Source"

\* line 91: engine_lookup.get(source, "Source")
SourceEngine(source) ==
    IF source \in Keys(engine_lookup) THEN DictGet(engine_lookup, source).engine ELSE "Source"

\* lines 100-102
TargetEngine(target, is_implicit) ==
    IF target \in Keys(engine_lookup) THEN DictGet(engine_lookup, target).engine
    ELSE IF is_implicit THEN "implicit" ELSE "target"

RegisterViewRow(row) ==
    /\ nodes' = RegisterViewNode(nodes, row)
    /\ mv_names' = mv_names \cup {MvFullName(row)}
    /\ sources' = MergedSources(row)

\* lines 66-84: the next row is taken, the view is registered and its sources are merged
RegisterView ==
    /\ build_pc = "row"
    /\ row_idx < Len(mv_df)
    /\ RegisterViewRow(mv_df[row_idx + 1])
    /\ row_idx' = row_idx + 1
    /\ src_idx' = 0
    /\ build_pc' = "sources"
    /\ UNCHANGED <<mv_df, engine_lookup, edges, target_names>>
    /\ UNCHANGED <<parserVars, layoutVars>>

\* mutant: the edge of a source names the source as the view that produced it
AddSourceOf_ProducedBySource(row, source) ==
    /\ nodes' = RegisterIfAbsent(nodes, source, row.database, SourceEngine(source))
    /\ edges' = Append(edges, LineageEdge(source, MvFullName(row), source))

\* lines 87-93: the node of a source, if new, and its edge
AddSourceOf(row, source) ==
    /\ nodes' = RegisterIfAbsent(nodes, source, row.database, SourceEngine(source))
    /\ edges' = Append(edges, LineageEdge(source, MvFullName(row), MvFullName(row)))

\* lines 86-93: one iteration of the loop over sources
AddSource ==
    /\ build_pc = "sources"
    /\ src_idx < Len(sources)
    /\ AddSourceOf(mv_df[row_idx], sources[src_idx + 1])
    /\ src_idx' = src_idx + 1
    /\ UNCHANGED <<mv_df, engine_lookup, row_idx, build_pc, sources, mv_names, target_names>>
    /\ UNCHANGED <<parserVars, layoutVars>>

\* mutant: target_names.add is moved under the "not in lineage.nodes" test
AddTargetOf_OnlyNewTargets(row, target, is_implicit) ==
    /\ nodes' = RegisterIfAbsent(nodes, target, row.database, TargetEngine(target, is_implicit))
    /\ target_names' = IF target \in Keys(nodes) THEN target_names ELSE target_names \cup {target}
    /\ edges' = Append(edges, LineageEdge(MvFullName(row), target, MvFullName(row)))

\* lines 96-105
AddTargetOf(row, target, is_implicit) ==
    /\ nodes' = RegisterIfAbsent(nodes, target, row.database, TargetEngine(target, is_implicit))
    /\ target_names' = target_names \cup {target}
    /\ edges' = Append(edges, LineageEdge(MvFullName(row), target, MvFullName(row)))

AddTargetParsed(row, parsed) == AddTargetOf(row, parsed[1], parsed[2])

\* line 95
RowTarget(row) == ParseTargetTable(row.create_table_query, row.database, row.name)

\* lines 95-105: the target of the current row
AddTarget ==
    /\ build_pc = "sources"
    /\ src_idx = Len(sources)
    /\ AddTargetParsed(mv_df[row_idx], RowTarget(mv_df[row_idx]))
    /\ build_pc' = "row"
    /\ UNCHANGED <<mv_df, engine_lookup, row_idx, sources, src_idx, mv_names>>
    /\ UNCHANGED <<parserVars, layoutVars>>

\* line 107: return lineage
ReturnLineage ==
    /\ build_pc = "row"
    /\ row_idx = Len(mv_df)
    /\ build_pc' = "done"
    /\ UNCHANGED <<mv_df, engine_lookup, row_idx, sources, src_idx>>
    /\ UNCHANGED <<graphVars, parserVars, layoutVars>>

(***************************************************************************)
(* build_lineage on its own: the view records and the schema records are   *)
(* drawn from small sets; the DDL texts are real texts, parsed by the      *)
(* parser above.                                                           *)
(***************************************************************************)
MaxViews == 2

DbD == <<"d">>
TblM == <<"m">>
TblN == <<"n">>
TblR == <<"r">>
TblS == <<"s">>
TblT == <<"t">>

DdlHead == <<"V", " ">>
ToDS    == <<"T", "O", " ", "d", ".", "s", " ">>
ToT     == <<"t", "o", " ", "t", " ">>
ToDN    == <<"T", "O", " ", "d", ".", "n", " ">>
ToDR    == <<"T", "O", " ", "d", ".", "r", " ">>
SelDR   == <<"A", "S", " ", "S", "E", "L", "E", "C", "T", " ", "1", " ",
             "F", "R", "O", "M", " ", "d", ".", "r">>
SelDS   == <<"a", "s", " ", "s", "e", "l", "e", "c", "t", " ", "1", " ",
             "f", "r", "o", "m", " ", "d", ".", "s">>
SelSR   == <<"A", "S", " ", "S", "E", "L", "E", "C", "T", " ", "1", " ",
             "F", "R", "O", "M", " ", "s", " ", "J", "O", "I", "N", " ", "d", ".", "r">>
SelDM   == <<"A", "S", " ", "S", "E", "L", "E", "C", "T", " ", "1", " ",
             "F", "R", "O", "M", " ", "d", ".", "m">>
SelInnerM == <<"A", "S", " ", "S", "E", "L", "E", "C", "T", " ", "1", " ",
               "F", "R", "O", "M", " ", "d", ".", Backtick, ".", "i", "n", "n", "e", "r", ".",
               "m", Backtick>>
NoClause  == <<"I", "N", "T", "O", " ", "x", " ", "A", "S", " ", "y">>

DdlSet ==
    { DdlHead \o NoClause,
      DdlHead \o ToDS \o SelDR,
      DdlHead \o ToT \o SelDS,
      DdlHead \o SelSR,
      DdlHead \o ToDN \o SelDM,
      DdlHead \o ToDR \o SelDR,
      DdlHead \o SelInnerM,
      DdlHead \o ToDS,
      DdlHead \o ToT \o SelSR }

ViewRow(name, ddl, deps_db, deps_table) ==
    [database |-> DbD, name |-> name, create_table_query |-> ddl,
     dependencies_database |-> deps_db, dependencies_table |-> deps_table]

ViewRows ==
    {ViewRow(name, ddl, ListOf(<<>>), ListOf(<<>>)) : name \in {TblM, TblN}, ddl \in DdlSet}
        \cup { ViewRow(TblM, DdlHead \o ToDS \o SelDR,
                       ListOf(<<DbD, DbD, DbD>>), ListOf(<<TblT, TblR, TblT>>)),
               ViewRow(TblN, DdlHead \o NoClause, ListOf(<<DbD>>), ListOf(<<TblS, TblR>>)),
               ViewRow(TblN, DdlHead \o SelSR, NotAList, ListOf(<<TblT>>)),
               ViewRow(TblM, DdlHead \o ToT \o SelDS, ListOf(<<DbD>>), ListOf(<<TblN>>)) }

SchemaRow(name, engine) == [database |-> DbD, name |-> name, engine |-> engine]

SchemaFrames ==
    { <<>>,
      <<SchemaRow(TblS, "SummingMergeTree"), SchemaRow(TblR, "MergeTree")>>,
      <<SchemaRow(TblN, "MergeTree"), SchemaRow(TblT, "Log"), SchemaRow(TblT, "MergeTree")>> }

BuildInit ==
    /\ mv_df \in UNION {[1..n -> ViewRows] : n \in 0..MaxViews}
    /\ engine_lookup \in {EngineLookup(schema_df) : schema_df \in SchemaFrames}
    /\ row_idx = 0
    /\ build_pc = "row"
    /\ sources = <<>>
    /\ src_idx = 0
    /\ GraphEmpty /\ ParserIdle /\ LayoutIdle

BuildNext == RegisterView \/ AddSource \/ AddTarget \/ ReturnLineage

Spec == BuildInit /\ [][BuildNext]_vars

(***************************************************************************)
(* lineage/layout.py                                                       *)
(***************************************************************************)
\* mutant: the level of the last parent is kept, not the greatest
Max2_Last(a, b) == b

Max2(a, b) == IF a >= b THEN a ELSE b

\* line 74: [e.source for e in lineage.edges if e.target == node_id]
RECURSIVE Incoming(_, _)
Incoming(es, n) ==
    IF es = <<>> THEN <<>>
    ELSE IF Head(es).target = n THEN <<Head(es).source>> \o Incoming(Tail(es), n)
    ELSE Incoming(Tail(es), n)

\* downstream.get(n, []): the targets of the edges that leave n, in edge order
RECURSIVE Outgoing(_, _)
Outgoing(es, n) ==
    IF es = <<>> THEN <<>>
    ELSE IF Head(es).source = n THEN <<Head(es).target>> \o Outgoing(Tail(es), n)
    ELSE Outgoing(Tail(es), n)

\* levels[n]
Level(lv, n) == DictGet(lv, n).level

\* levels[n] = v
SetLevel(lv, n, v) == DictSet(lv, [key |-> n, level |-> v])

\* the frame of a get_level call that goes on to its parents: i parents are done and
\* best is the greatest level they returned (-1 before the first)
Frame(n, incoming) == [node |-> n, incoming |-> incoming, i |-> 0, best |-> -1]

Top == stack[Len(stack)]

\* mutant: the returned level is taken, but the generator does not move to the next parent
ReturnTo_SameParent(stk, v) ==
    IF stk = <<>> THEN stk
    ELSE [stk EXCEPT ![Len(stk)].best = Max2(@, v)]

\* a get_level call returns v: the calling frame, if any, takes v into its max (line 78)
ReturnTo(stk, v) ==
    IF stk = <<>> THEN stk
    ELSE [stk EXCEPT ![Len(stk)].i = @ + 1, ![Len(stk)].best = Max2(@, v)]

\* lines 60-61: the empty graph gives the empty mapping
ReturnEmpty ==
    /\ phase = "idle"
    /\ nodes = <<>>
    /\ phase' = "done"
    /\ UNCHANGED <<levels, visiting, stack, call, next_idx, positions, selected_id, connected>>
    /\ UNCHANGED <<cached_positions, flow_positions, bfsVars, sessionVars>>
    /\ UNCHANGED <<parserVars, buildVars, graphVars>>

\* lines 60-65: calculate_positions is entered with a graph that has nodes
StartLevels ==
    /\ phase = "idle"
    /\ nodes # <<>>
    /\ phase' = "levels"
    /\ UNCHANGED <<levels, visiting, stack, call, next_idx, positions, selected_id, connected>>
    /\ UNCHANGED <<cached_positions, flow_positions, bfsVars, sessionVars>>
    /\ UNCHANGED <<parserVars, buildVars, graphVars>>

\* lines 83-84: the outer loop calls get_level on the next node
LoopCall ==
    /\ phase = "levels"
    /\ stack = <<>>
    /\ call = None
    /\ next_idx < Len(nodes)
    /\ call' = Some(nodes[next_idx + 1].key)
    /\ next_idx' = next_idx + 1
    /\ UNCHANGED <<phase, levels, visiting, stack, positions, selected_id, connected>>
    /\ UNCHANGED <<cached_positions, flow_positions, bfsVars, sessionVars>>
    /\ UNCHANGED <<parserVars, buildVars, graphVars>>

\* lines 68-69: the level is known already
LevelMemo ==
    /\ phase = "levels"
    /\ call # None
    /\ call[1] \in Keys(levels)
    /\ stack' = ReturnTo(stack, Level(levels, call[1]))
    /\ call' = None
    /\ UNCHANGED <<phase, levels, visiting, next_idx, positions, selected_id, connected>>
    /\ UNCHANGED <<cached_positions, flow_positions, bfsVars, sessionVars>>
    /\ UNCHANGED <<parserVars, buildVars, graphVars>>

\* lines 70-72: the node is on the call stack, the cycle is cut with level 0
LevelCycle ==
    /\ phase = "levels"
    /\ call # None
    /\ call[1] \notin Keys(levels)
    /\ call[1] \in visiting
    /\ levels' = SetLevel(levels, call[1], 0)
    /\ stack' = ReturnTo(stack, 0)
    /\ call' = None
    /\ UNCHANGED <<phase, visiting, next_idx, positions, selected_id, connected>>
    /\ UNCHANGED <<cached_positions, flow_positions, bfsVars, sessionVars>>
    /\ UNCHANGED <<parserVars, buildVars, graphVars>>

\* lines 73-76 and 80-81: a node with no incoming edge has level 0
LevelRoot ==
    /\ phase = "levels"
    /\ call # None
    /\ call[1] \notin Keys(levels)
    /\ call[1] \notin visiting
    /\ Incoming(edges, call[1]) = <<>>
    /\ levels' = SetLevel(levels, call[1], 0)
    /\ stack' = ReturnTo(stack, 0)
    /\ call' = None
    /\ UNCHANGED <<phase, visiting, next_idx, positions, selected_id, connected>>
    /\ UNCHANGED <<cached_positions, flow_positions, bfsVars, sessionVars>>
    /\ UNCHANGED <<parserVars, buildVars, graphVars>>

\* lines 73-75 and 77: a node with incoming edges is marked as visiting
LevelEnter ==
    /\ phase = "levels"
    /\ call # None
    /\ call[1] \notin Keys(levels)
    /\ call[1] \notin visiting
    /\ Incoming(edges, call[1]) # <<>>
    /\ visiting' = visiting \cup {call[1]}
    /\ stack' = Append(stack, Frame(call[1], Incoming(edges, call[1])))
    /\ call' = None
    /\ UNCHANGED <<phase, levels, next_idx, positions, selected_id, connected>>
    /\ UNCHANGED <<cached_positions, flow_positions, bfsVars, sessionVars>>
    /\ UNCHANGED <<parserVars, buildVars, graphVars>>

\* line 78: get_level is called on the next parent
LevelCallParent ==
    /\ phase = "levels"
    /\ call = None
    /\ stack # <<>>
    /\ Top.i < Len(Top.incoming)
    /\ call' = Some(Top.incoming[Top.i + 1])
    /\ UNCHANGED <<phase, levels, visiting, stack, next_idx, positions, selected_id, connected>>
    /\ UNCHANGED <<cached_positions, flow_positions, bfsVars, sessionVars>>
    /\ UNCHANGED <<parserVars, buildVars, graphVars>>

\* lines 78-81: all parents are done, the level is the greatest parent level plus one
LevelFinish ==
    /\ phase = "levels"
    /\ call = None
    /\ stack # <<>>
    /\ Top.i = Len(Top.incoming)
    /\ levels' = SetLevel(levels, Top.node, Top.best + 1)
    /\ visiting' = visiting \ {Top.node}
    /\ stack' = ReturnTo(SubSeq(stack, 1, Len(stack) - 1), Top.best + 1)
    /\ UNCHANGED <<phase, call, next_idx, positions, selected_id, connected>>
    /\ UNCHANGED <<cached_positions, flow_positions, bfsVars, sessionVars>>
    /\ UNCHANGED <<parserVars, buildVars, graphVars>>

\* lines 31 and 34: the nodes of ns that are not in the cluster, in order
RECURSIVE NotInCluster(_, _)
NotInCluster(ns, cluster) ==
    IF ns = <<>> THEN <<>>
    ELSE IF Head(ns) \in cluster THEN NotInCluster(Tail(ns), cluster)
    ELSE <<Head(ns)>> \o NotInCluster(Tail(ns), cluster)

\* mutant: only the children of n are queued
Queued_Downstream(es, n, cluster) == NotInCluster(Outgoing(es, n), cluster)

\* lines 30-35: the children of n, then its parents, as far as the cluster lacks them
Queued(es, n, cluster) ==
    NotInCluster(Outgoing(es, n), cluster) \o NotInCluster(Incoming(es, n), cluster)

\* lines 25-35: the queue is worked off from its head; a node already in the cluster is
\* skipped, any other is added and its neighbours are queued
RECURSIVE ClusterBfs(_, _, _)
ClusterBfs(queue, cluster, es) ==
    IF queue = <<>> THEN cluster
    ELSE IF Head(queue) \in cluster THEN ClusterBfs(Tail(queue), cluster, es)
    ELSE ClusterBfs(Tail(queue) \o Queued(es, Head(queue), cluster \cup {Head(queue)}),
                    cluster \cup {Head(queue)}, es)

\* lines 23-35: the cluster found from node_id
ClusterOf(node_id, es) == ClusterBfs(<<node_id>>, {}, es)

\* lines 20-37: one cluster per node that no earlier cluster holds, in node order
RECURSIVE ClustersFrom(_, _, _)
ClustersFrom(ids, visited, es) ==
    IF ids = <<>> THEN <<>>
    ELSE IF Head(ids) \in visited THEN ClustersFrom(Tail(ids), visited, es)
    ELSE <<ClusterOf(Head(ids), es)>>
             \o ClustersFrom(Tail(ids), visited \cup ClusterOf(Head(ids), es), es)

\* _find_clusters
FindClusters(d, es) == ClustersFrom(KeyList(d), {}, es)

\* mutant: a cluster is keyed by its greatest node id
ClusterSortKey_Largest(cluster) ==
    CHOOSE a \in cluster : \A b \in cluster : a = b \/ StrLess(b, a)

\* _get_cluster_sort_key
ClusterSortKey(cluster) == StrMin(cluster)

\* list.sort(key=...): x is put after every element whose key is not greater (stable)
RECURSIVE InsertCluster(_, _)
InsertCluster(sorted, c) ==
    IF sorted = <<>> THEN <<c>>
    ELSE IF StrLess(ClusterSortKey(c), ClusterSortKey(Head(sorted))) THEN <<c>> \o sorted
    ELSE <<Head(sorted)>> \o InsertCluster(Tail(sorted), c)

\* line 93: clusters.sort(key=_get_cluster_sort_key)
RECURSIVE SortClusters(_, _)
SortClusters(cs, sorted) ==
    IF cs = <<>> THEN sorted ELSE SortClusters(Tail(cs), InsertCluster(sorted, Head(cs)))

\* lines 96-98 and 131
x_spacing   == 380
y_spacing   == 130
cluster_gap == 80
x_origin    == 80

\* the orders in which a set of str can be iterated
Orders(S) ==
    {q \in [1..Cardinality(S) -> S] : \A i, j \in 1..Cardinality(S) : i # j => q[i] # q[j]}

\* lines 106-108: the nodes of the cluster at level lvl, in the iteration order of the set
RECURSIVE IterAtLevel(_, _, _, _)
IterAtLevel(order, cluster, lv, lvl) ==
    IF order = <<>> THEN <<>>
    ELSE IF Head(order) \in cluster /\ Level(lv, Head(order)) = lvl
    THEN <<Head(order)>> \o IterAtLevel(Tail(order), cluster, lv, lvl)
    ELSE IterAtLevel(Tail(order), cluster, lv, lvl)

\* line 119: [_pos[p][1] for p in parents if p in _pos]
RECURSIVE Positioned(_, _)
Positioned(parents, pos) ==
    IF parents = <<>> THEN <<>>
    ELSE IF Head(parents) \in Keys(pos)
    THEN <<DictGet(pos, Head(parents)).y2>> \o Positioned(Tail(parents), pos)
    ELSE Positioned(Tail(parents), pos)

RECURSIVE Sum(_)
Sum(q) == IF q = <<>> THEN 0 ELSE Head(q) + Sum(Tail(q))

\* line 120: the mean as the fraction <<sum, len>>, 0.0 as <<0, 1>>
MeanOf(q) == IF q = <<>> THEN <<0, 1>> ELSE <<Sum(q), Len(q)>>

\* lines 117-120: sort_key(n), with the positions placed so far
SortKey(n, es, pos) == MeanOf(Positioned(Incoming(es, n), pos))

\* a < b on two fractions with positive denominators
KeyLess(a, b) == a[1] * b[2] < b[1] * a[2]

RECURSIVE InsertByKey(_, _, _, _)
InsertByKey(sorted, n, es, pos) ==
    IF sorted = <<>> THEN <<n>>
    ELSE IF KeyLess(SortKey(n, es, pos), SortKey(Head(sorted), es, pos)) THEN <<n>> \o sorted
    ELSE <<Head(sorted)>> \o InsertByKey(Tail(sorted), n, es, pos)

\* line 122: nodes.sort(key=sort_key), a stable sort
RECURSIVE SortByKey(_, _, _, _)
SortByKey(q, sorted, es, pos) ==
    IF q = <<>> THEN sorted
    ELSE SortByKey(Tail(q), InsertByKey(sorted, Head(q), es, pos), es, pos)

\* lines 111-123: the column of level lvl; level 0 by name, the others by sort_key
Column(order, cluster, lv, lvl, es, pos) ==
    IF lvl = 0
    THEN SortedStrs({n \in cluster : Level(lv, n) = 0})
    ELSE SortByKey(IterAtLevel(order, cluster, lv, lvl), <<>>, es, pos)

\* sorted(cluster_by_level.keys())
LevelsOf(cluster, lv) == {Level(lv, n) : n \in cluster}

RECURSIVE SortedInts(_)
SortedInts(S) == IF S = {} THEN <<>> ELSE <<MinOrZero(S)>> \o SortedInts(S \ {MinOrZero(S)})

\* line 126
MaxRows(cluster, lv) ==
    MaxOrZero({Cardinality({n \in cluster : Level(lv, n) = lvl}) : lvl \in LevelsOf(cluster, lv)})

\* lines 134 and 141
BandHeight(max_rows) == (max_rows - 1) * y_spacing

\* positions[node_id] = (x, y), y doubled
Position(n, x, y2) == [key |-> n, x |-> x, y2 |-> y2]

\* mutant: every node of a column is placed at the top of the column
RECURSIVE PlaceColumn_OneRow(_, _, _, _, _)
PlaceColumn_OneRow(col, i, x, y_offset2, pos) ==
    IF i > Len(col) THEN pos
    ELSE PlaceColumn_OneRow(col, i + 1, x, y_offset2, DictSet(pos, Position(col[i], x, y_offset2)))

\* lines 136-138: the nodes of one column, from index i on; y_offset2 is y_offset doubled
RECURSIVE PlaceColumn(_, _, _, _, _)
PlaceColumn(col, i, x, y_offset2, pos) ==
    IF i > Len(col) THEN pos
    ELSE PlaceColumn(col, i + 1, x, y_offset2,
                     DictSet(pos, Position(col[i], x, y_offset2 + 2 * (i - 1) * y_spacing)))

\* lines 131-135: x of the level, and y_offset = current_y + (band_height - col_height) / 2
PlaceLevel(col, lvl, max_rows, current_y, pos) ==
    PlaceColumn(col, 1, lvl * x_spacing + x_origin,
                2 * current_y + BandHeight(max_rows) - (Len(col) - 1) * y_spacing, pos)

\* lines 129-138: the columns of one cluster, by ascending level; sort_pos is the positions
\* dict as the sort of lines 111-123 saw it
RECURSIVE PlaceLevels(_, _, _, _, _, _, _, _)
PlaceLevels(lvls, order, cluster, lv, es, current_y, sort_pos, pos) ==
    IF lvls = <<>> THEN pos
    ELSE PlaceLevels(Tail(lvls), order, cluster, lv, es, current_y, sort_pos,
                     PlaceLevel(Column(order, cluster, lv, Head(lvls), es, sort_pos),
                                Head(lvls), MaxRows(cluster, lv), current_y, pos))

\* lines 103-142: the clusters in turn, current_y moving down by a band and a gap
RECURSIVE PlaceClusters(_, _, _, _, _, _)
PlaceClusters(cs, order, lv, es, current_y, pos) ==
    IF cs = <<>> THEN pos
    ELSE PlaceClusters(Tail(cs), order, lv, es,
                       current_y + BandHeight(MaxRows(Head(cs), lv)) + cluster_gap + y_spacing,
                       PlaceLevels(SortedInts(LevelsOf(Head(cs), lv)), order, Head(cs), lv, es,
                                   current_y, pos, pos))

\* mutant: the layout is shifted by its topmost y-coordinate
YCentre2_Top(pos) == MinOrZero({pos[i].y2 : i \in 1..Len(pos)})

\* line 147, doubled: min(all_ys) + max(all_ys)
YCentre2(pos) ==
    (MinOrZero({pos[i].y2 : i \in 1..Len(pos)}) + MaxOrZero({pos[i].y2 : i \in 1..Len(pos)})) \div 2

Shifted(pos, c2) == [i \in 1..Len(pos) |-> Position(pos[i].key, pos[i].x, pos[i].y2 - c2)]

\* lines 145-148: everything is centred around y = 0
Centred(pos) == IF pos = <<>> THEN pos ELSE Shifted(pos, YCentre2(pos))

\* lines 87-150: the positions, for the levels lv and the iteration order of the sets
Layout(d, es, lv, order) ==
    Centred(PlaceClusters(SortClusters(FindClusters(d, es), <<>>), order, lv, es, 0, <<>>))

\* lines 87-150: the levels are complete, the clusters are placed and the mapping returned
Place ==
    /\ phase = "levels"
    /\ stack = <<>>
    /\ call = None
    /\ next_idx = Len(nodes)
    /\ \E order \in Orders(Keys(nodes)) : positions' = Layout(nodes, edges, levels, order)
    /\ phase' = "done"
    /\ UNCHANGED <<levels, visiting, stack, call, next_idx, selected_id, connected>>
    /\ UNCHANGED <<cached_positions, flow_positions, bfsVars, sessionVars>>
    /\ UNCHANGED <<parserVars, buildVars, graphVars>>

\* lines 177-180 and 186-189: the neighbours of one node are added and queued if new
\* mutant: the neighbours are added to the connected set only after all of them have
\* been tested
VisitNeighbours_LateAdd(ns, queue, conn) ==
    <<queue \o NotInCluster(ns, conn), conn \cup {ns[i] : i \in 1..Len(ns)}>>

RECURSIVE VisitNeighbours(_, _, _)
VisitNeighbours(ns, queue, conn) ==
    IF ns = <<>> THEN <<queue, conn>>
    ELSE IF Head(ns) \in conn THEN VisitNeighbours(Tail(ns), queue, conn)
    ELSE VisitNeighbours(Tail(ns), Append(queue, Head(ns)), conn \cup {Head(ns)})

NeighboursOf(es, n, forward) == IF forward THEN Outgoing(es, n) ELSE Incoming(es, n)

\* lines 174-180 and 183-189: one breadth-first traversal, on the connected set given
RECURSIVE Bfs(_, _, _, _)
BfsNext(qc, es, forward) == Bfs(qc[1], qc[2], es, forward)
Bfs(queue, conn, es, forward) ==
    IF queue = <<>> THEN conn
    ELSE BfsNext(VisitNeighbours(NeighboursOf(es, Head(queue), forward), Tail(queue), conn),
                 es, forward)

\* get_connected_subgraph: the upstream traversal goes on with the set the downstream
\* traversal has filled
ConnectedSubgraph(es, selected) ==
    Bfs(<<selected>>, Bfs(<<selected>>, {selected}, es, TRUE), es, FALSE)

\* a selected_id that is no node of the graph
AbsentId == <<"d", ".", "z">>

\* a call of get_connected_subgraph(lineage, selected)
GetConnectedSubgraph ==
    /\ phase = "idle"
    /\ \E selected \in Keys(nodes) \cup {AbsentId} :
          /\ selected_id' = Some(selected)
          /\ connected' = ConnectedSubgraph(edges, selected)
    /\ phase' = "subgraph"
    /\ UNCHANGED <<levels, visiting, stack, call, next_idx, positions>>
    /\ UNCHANGED <<cached_positions, flow_positions, bfsVars, sessionVars>>
    /\ UNCHANGED <<parserVars, buildVars, graphVars>>

(***************************************************************************)
(* get_connected_subgraph step by step: one step per queue.pop(0), with    *)
(* the loop over the neighbours of the node popped.                        *)
(***************************************************************************)
\* lines 165-174: the connected set and the queue of the downstream traversal
SubgraphStart ==
    /\ phase = "idle"
    /\ \E selected \in Keys(nodes) \cup {AbsentId} :
          /\ selected_id' = Some(selected)
          /\ connected' = {selected}
          /\ bfs_queue' = <<selected>>
          /\ enqueued' = << <<"downstream", selected>> >>
    /\ bfs_dir' = "downstream"
    /\ phase' = "bfs"
    /\ UNCHANGED <<levels, visiting, stack, call, next_idx, positions>>
    /\ UNCHANGED <<cached_positions, flow_positions, sessionVars>>
    /\ UNCHANGED <<parserVars, buildVars, graphVars>>

\* the elements r has put on the queue q
Appended(q, r) == SubSeq(r[1], Len(q) + 1, Len(r[1]))

\* r is what the loop over the neighbours leaves: the queue and the connected set
SubgraphExpanded(r) ==
    /\ bfs_queue' = r[1]
    /\ connected' = r[2]
    /\ enqueued' = enqueued \o [i \in 1..Len(Appended(Tail(bfs_queue), r))
                                  |-> <<bfs_dir, Appended(Tail(bfs_queue), r)[i]>>]

\* lines 175-180 and 184-189: one iteration of the while loop
SubgraphExpand ==
    /\ phase = "bfs"
    /\ bfs_queue # <<>>
    /\ SubgraphExpanded(VisitNeighbours(NeighboursOf(edges, Head(bfs_queue), bfs_dir = "downstream"),
                                        Tail(bfs_queue), connected))
    /\ UNCHANGED <<phase, bfs_dir, selected_id>>
    /\ UNCHANGED <<levels, visiting, stack, call, next_idx, positions>>
    /\ UNCHANGED <<cached_positions, flow_positions, sessionVars>>
    /\ UNCHANGED <<parserVars, buildVars, graphVars>>

\* line 183: the downstream queue is empty, the upstream traversal starts
SubgraphTurn ==
    /\ phase = "bfs"
    /\ bfs_queue = <<>>
    /\ bfs_dir = "downstream"
    /\ bfs_queue' = <<selected_id[1]>>
    /\ enqueued' = Append(enqueued, <<"upstream", selected_id[1]>>)
    /\ bfs_dir' = "upstream"
    /\ UNCHANGED <<phase, connected, selected_id>>
    /\ UNCHANGED <<levels, visiting, stack, call, next_idx, positions>>
    /\ UNCHANGED <<cached_positions, flow_positions, sessionVars>>
    /\ UNCHANGED <<parserVars, buildVars, graphVars>>

\* line 191: the upstream queue is empty, connected is returned
SubgraphReturn ==
    /\ phase = "bfs"
    /\ bfs_queue = <<>>
    /\ bfs_dir = "upstream"
    /\ phase' = "subgraph"
    /\ UNCHANGED <<bfsVars, connected, selected_id>>
    /\ UNCHANGED <<levels, visiting, stack, call, next_idx, positions>>
    /\ UNCHANGED <<cached_positions, flow_positions, sessionVars>>
    /\ UNCHANGED <<parserVars, buildVars, graphVars>>

(***************************************************************************)
(* lineage/renderer.py: the positions of a fresh flow state                *)
(***************************************************************************)
\* mutant: the computed position is taken even when a cached one exists
MergedPosition_ComputedWins(node_id, cached, computed) ==
    IF node_id \in Keys(computed) THEN DictGet(computed, node_id)
    ELSE IF node_id \in Keys(cached) THEN DictGet(cached, node_id)
    ELSE Position(node_id, 0, 0)

\* lines 212-214: cached_positions.get(node_id, computed_positions.get(node_id, (0.0, 0.0)))
MergedPosition(node_id, cached, computed) ==
    IF node_id \in Keys(cached) THEN DictGet(cached, node_id)
    ELSE IF node_id \in Keys(computed) THEN DictGet(computed, node_id)
    ELSE Position(node_id, 0, 0)

\* lines 211-216: one entry per node of the graph, in node order
MergePositions(d, cached, computed) ==
    [i \in 1..Len(d) |-> MergedPosition(d[i].key, cached, computed)]

\* a set of dict entries as a dict, the keys in ascending order
RECURSIVE SortedEntries(_)
SortedEntries(S) ==
    IF S = {} THEN <<>>
    ELSE <<CHOOSE e \in S : e.key = StrMin({x.key : x \in S})>>
             \o SortedEntries({e \in S : e.key # StrMin({x.key : x \in S})})

\* the values st.session_state["_lineage_positions"] may hold: positions recorded by
\* earlier renders, for nodes of the graph and for an id that is no node
CachedEntries ==
    { Position(<<"d", ".", "a">>, 7, -18),
      Position(<<"d", ".", "b">>, 460, 0),
      Position(<<"d", ".", "z">>, 1, 2) }

CachedPositionDicts == {SortedEntries(S) : S \in SUBSET CachedEntries}

\* lines 206-216 of render_lineage_graph: no flow state is cached, the layout has been
\* computed (line 210) and is merged with the cached positions
BuildFlowPositions ==
    /\ phase = "done"
    /\ \E cached \in CachedPositionDicts :
          /\ cached_positions' = cached
          /\ flow_positions' = MergePositions(nodes, cached, positions)
    /\ phase' = "rendered"
    /\ UNCHANGED <<levels, visiting, stack, call, next_idx, positions, selected_id, connected>>
    /\ UNCHANGED <<bfsVars, sessionVars>>
    /\ UNCHANGED <<parserVars, buildVars, graphVars>>

(***************************************************************************)
(* The layout engine on its own: the graph is drawn from the graphs with   *)
(* at most MaxNodes nodes, in any insertion order, and at most MaxEdges    *)
(* edges between them (referential integrity holds).                       *)
(***************************************************************************)
MaxNodes == 3
MaxEdges == 3

NodePool == << <<"a">>, <<"b">>, <<"c">>, <<"e">>, <<"f">> >>

NodeIds == {Dotted(DbD, NodePool[i]) : i \in 1..MaxNodes}

GraphNodes(ids) == [i \in 1..Len(ids) |-> TableNode(ids[i], DbD, Split1(ids[i])[2], "MergeTree")]

GraphEdges(S) == {LineageEdge(s, t, t) : s \in S, t \in S}

LayoutInit ==
    /\ \E S \in SUBSET NodeIds :
          /\ nodes \in {GraphNodes(ids) : ids \in Orders(S)}
          /\ edges \in UNION {[1..n -> GraphEdges(S)] : n \in 0..MaxEdges}
    /\ mv_names = {}
    /\ target_names = {}
    /\ LayoutIdle /\ BuildIdle /\ ParserIdle

LayoutNext ==
    \/ ReturnEmpty \/ StartLevels \/ LoopCall
    \/ LevelMemo \/ LevelCycle \/ LevelRoot \/ LevelEnter \/ LevelCallParent \/ LevelFinish
    \/ Place
    \/ GetConnectedSubgraph
    \/ BuildFlowPositions

SpecLayout == LayoutInit /\ [][LayoutNext]_vars

\* the steps of the level computation (lines 67-84)
LevelStep ==
    \/ LoopCall
    \/ LevelMemo \/ LevelCycle \/ LevelRoot \/ LevelEnter \/ LevelCallParent \/ LevelFinish

\* the step by which calculate_positions returns, seen on phase alone: Place is the only
\* action that takes it
Returns ==
    /\ phase = "levels"
    /\ stack = <<>>
    /\ call = None
    /\ next_idx = Len(nodes)
    /\ phase' = "done"

\* calculate_positions is sequential code that waits on nothing: once called, it goes on
\* taking its next step
SpecLayoutFair == SpecLayout /\ WF_vars(LevelStep) /\ WF_phase(Returns)


(***************************************************************************)
(* Vocabulary of the claims: the grammar of the clauses, stated on the     *)
(* text and not by the matcher, and graph notions.                         *)
(***************************************************************************)
Range(q) == {q[i] : i \in 1..Len(q)}

IsBareIdent(r) ==
    /\ Len(r) >= 1
    /\ IsIdentStart(r[1])
    /\ \A k \in 2..Len(r) : IsWordChar(r[k])

IsQuotedIdent(r) ==
    /\ Len(r) >= 3
    /\ r[1] = Backtick
    /\ r[Len(r)] = Backtick
    /\ \A k \in 2..(Len(r) - 1) : r[k] # Backtick

IsIdentText(r) == IsBareIdent(r) \/ IsQuotedIdent(r)

\* a table-ref: an identifier, or two identifiers joined by a dot
IsTableRef(r) ==
    \/ IsIdentText(r)
    \/ \E k \in 2..(Len(r) - 1) :
          /\ r[k] = "."
          /\ IsIdentText(SubSeq(r, 1, k - 1))
          /\ IsIdentText(SubSeq(r, k + 1, Len(r)))

\* the keyword kw stands as a word at t[i..]
KeywordAt(t, i, kw) == WordBoundary(t, i) /\ MatchKeyword(t, i, kw)

\* t[a..b] is whitespace, and not empty
SpaceRun(t, a, b) == a <= b /\ \A k \in a..b : IsSpace(t[k])

\* the clauses "KW <table-ref>" of t: <<i, s, e>> with the keyword at t[i], whitespace
\* up to t[s-1] and the table-ref t[s..e]
ClausesOf(t, kw) ==
    UNION { UNION { { <<i, s, e>> : e \in {x \in s..Len(t) : IsTableRef(SubSeq(t, s, x))} } :
                    s \in {y \in (i + Len(kw) + 1)..Len(t) : SpaceRun(t, i + Len(kw), y - 1)} } :
            i \in {z \in 1..Len(t) : KeywordAt(t, z, kw)} }

HasToClause(t) == ClausesOf(t, KwTO) # {}

\* "AS SELECT": AS as a word, whitespace, SELECT as a word
HasAsSelect(t) ==
    \E i \in {z \in 1..Len(t) : KeywordAt(t, z, KwAS)} :
        \E s \in {y \in (i + 3)..Len(t) : SpaceRun(t, i + 2, y - 1)} :
            KeywordAt(t, s, KwSELECT) /\ WordBoundary(t, s + Len(KwSELECT))

\* a DDL text with neither an AS SELECT nor a TO clause
ParseMiss(t) == ~HasAsSelect(t) /\ ~HasToClause(t)

\* the names the explicit dependency fields of a row give
DepNames(row) ==
    IF row.dependencies_database.is_list /\ row.dependencies_table.is_list
    THEN {Dotted(row.dependencies_database.items[i], row.dependencies_table.items[i]) :
            i \in (DOMAIN row.dependencies_database.items)
                    \cap (DOMAIN row.dependencies_table.items)}
    ELSE {}

\* the nodes joined to a node of S by an edge, in either direction
Neighbours(S, es) ==
    {es[i].target : i \in {j \in 1..Len(es) : es[j].source \in S}}
        \cup {es[i].source : i \in {j \in 1..Len(es) : es[j].target \in S}}

RECURSIVE UndirectedClosure(_, _)
UndirectedClosure(S, es) ==
    IF Neighbours(S, es) \subseteq S THEN S ELSE UndirectedClosure(S \cup Neighbours(S, es), es)

\* the node set N is one weakly-connected component of the edges es
WeaklyConnected(N, es) == \A n \in N : N \subseteq UndirectedClosure({n}, es)

HasEdge(es, source, target, mv) ==
    \E i \in 1..Len(es) : es[i] = [source |-> source, target |-> target, mv_name |-> mv]

NodeCount(d, k) == Cardinality({i \in 1..Len(d) : d[i].key = k})

\* the nodes one edge away from a node of S, along the edges or against them
EdgeStep(S, es, forward) ==
    IF forward
    THEN {es[i].target : i \in {j \in 1..Len(es) : es[j].source \in S}}
    ELSE {es[i].source : i \in {j \in 1..Len(es) : es[j].target \in S}}

\* S and the nodes reachable from S by following edges in one direction
RECURSIVE Reach(_, _, _)
Reach(S, es, forward) ==
    IF EdgeStep(S, es, forward) \subseteq S THEN S
    ELSE Reach(S \cup EdgeStep(S, es, forward), es, forward)

\* no node is reachable from itself by one or more edges
Acyclic(N, es) == \A n \in N : n \notin Reach(EdgeStep({n}, es, TRUE), es, TRUE)

IsEdge(es, a, b) == \E j \in 1..Len(es) : es[j].source = a /\ es[j].target = b

\* p is a path of the graph that starts at a node with no incoming edge and ends at n
IsRootPathTo(p, n, es) ==
    /\ p[Len(p)] = n
    /\ EdgeStep({p[1]}, es, FALSE) = {}
    /\ \A i \in 1..(Len(p) - 1) : IsEdge(es, p[i], p[i + 1])

\* the length, in edges, of the longest path to n from a node with no incoming edge
LongestPath(n, N, es) ==
    MaxOrZero({k \in 0..(Cardinality(N) - 1) :
                  \E p \in [1..(k + 1) -> N] : IsRootPathTo(p, n, es)})

\* the x-coordinate the layout gave to node n
XOf(pos, n) == DictGet(pos, n).x

\* the table-ref r qualified: backquotes removed, whitespace trimmed, and the database
\* put in front when no dot is left
Qualified(r, db) ==
    IF "." \in Range(Strip(RemoveChar(r, Backtick)))
    THEN Strip(RemoveChar(r, Backtick))
    ELSE db \o <<".">> \o Strip(RemoveChar(r, Backtick))

\* the table-refs of the leftmost TO clause of t
FirstToRefs(t) ==
    {SubSeq(t, c[2], c[3]) :
        c \in {b \in ClausesOf(t, KwTO) : \A a \in ClausesOf(t, KwTO) : b[1] <= a[1]}}

(***************************************************************************)
(* Claims about build_lineage, checked under Spec.                         *)
(***************************************************************************)
\* C1: after build_lineage has processed any prefix of the view records (and in the
\* returned graph), every edge's source and target are keys of nodes, and every
\* element of mv_names and of target_names is a key of nodes.
C1_ReferentialIntegrity ==
    /\ \A i \in 1..Len(edges) :
          edges[i].source \in Keys(nodes) /\ edges[i].target \in Keys(nodes)
    /\ mv_names \subseteq Keys(nodes)
    /\ target_names \subseteq Keys(nodes)

C1_Witness ==
    /\ build_pc = "done"
    /\ Len(edges) >= 4
    /\ Cardinality(mv_names) = 2
    /\ target_names # {}

\* C5, as claimed: once a full_name is a key of nodes, the TableNode stored under it
\* is left unchanged by every later step, whether the step discovers the name as a
\* source, as a target or as a view.
C5_NeverOverwritten ==
    [][\A k \in Keys(nodes) : k \in Keys(nodes') /\ DictGet(nodes', k) = DictGet(nodes, k)]_vars

\* the step registers the view of the row it takes, and k is that view's name
RegistersView(k) ==
    /\ build_pc = "row"
    /\ build_pc' = "sources"
    /\ k = MvFullName(mv_df[row_idx'])

\* C5, amended: a node is left unchanged by every later step that discovers its name
\* as a source or as a target; only the registration of a view of that name replaces
\* it, by the view's node with engine "MaterializedView".
C5_OnlyViewsOverwrite ==
    [][\A k \in Keys(nodes) :
          /\ k \in Keys(nodes')
          /\ \/ DictGet(nodes', k) = DictGet(nodes, k)
             \/ /\ RegistersView(k)
                /\ DictGet(nodes', k).engine = MaterializedView]_vars

\* a table first discovered as a source was later discovered as a target and kept
\* its first node
C5_Witness ==
    /\ build_pc = "done"
    /\ engine_lookup = <<>>
    /\ \E k \in target_names : DictGet(nodes, k).engine = "Source"

\* build_lineage has a next step to take: the guard of one of its actions holds
BuildCanStep ==
    \/ build_pc = "row" /\ row_idx <= Len(mv_df)
    \/ build_pc = "sources" /\ row_idx \in 1..Len(mv_df) /\ src_idx <= Len(sources)

\* C6: build_lineage does not raise; a record whose DDL has neither AS SELECT nor a TO
\* clause yields zero parsed sources and an implicit target; the returned graph has
\* one node per distinct view full_name (mv_names is the set of the views'
\* full_names), that view's implicit target node and the edge view -> target.
C6_ParseMissStillBuilds ==
    /\ build_pc # "done" => BuildCanStep
    /\ (build_pc = "sources" /\ ParseMiss(mv_df[row_idx].create_table_query))
          => Range(sources) \subseteq DepNames(mv_df[row_idx])
    /\ build_pc = "done" =>
          /\ mv_names = {MvFullName(mv_df[i]) : i \in 1..Len(mv_df)}
          /\ \A v \in mv_names : NodeCount(nodes, v) = 1
          /\ \A i \in 1..Len(mv_df) :
                ParseMiss(mv_df[i].create_table_query) =>
                    /\ NodeCount(nodes, InnerName(mv_df[i].database, mv_df[i].name)) = 1
                    /\ HasEdge(edges, MvFullName(mv_df[i]),
                               InnerName(mv_df[i].database, mv_df[i].name),
                               MvFullName(mv_df[i]))

C6_Witness ==
    /\ build_pc = "done"
    /\ Len(mv_df) = 2
    /\ ParseMiss(mv_df[1].create_table_query)
    /\ mv_df[1].dependencies_database = ListOf(<<>>)
    /\ ~ParseMiss(mv_df[2].create_table_query)
    /\ Len(nodes) = 2 + Len(edges) - 1

\* the graph of one view V with target T and parsed sources S
SingleViewGraph(V, T, S) ==
    /\ Keys(nodes) = {V, T} \cup Range(S)
    /\ Len(nodes) = Len(S) + 2
    /\ edges = [k \in 1..Len(S) |-> [source |-> S[k], target |-> V, mv_name |-> V]]
                  \o <<[source |-> V, target |-> T, mv_name |-> V]>>
    /\ mv_names = {V}
    /\ target_names = {T}

SingleExplicitRow(row) ==
    /\ DepNames(row) = {}
    /\ ~RowTarget(row)[2]
    /\ MvFullName(row) # RowTarget(row)[1]
    /\ MvFullName(row) \notin Range(ParseSourceTables(row.create_table_query, row.database))
    /\ RowTarget(row)[1] \notin Range(ParseSourceTables(row.create_table_query, row.database))

\* C8: for a single view record V with an explicit TO target T, parsed source set S and
\* no explicit dependencies, V, T and the members of S pairwise distinct, the graph
\* has the nodes {V, T} united with S, the edges s -> V for each s of S followed by
\* V -> T (all with mv_name V), mv_names = {V} and target_names = {T}.
C8_SingleView ==
    (build_pc = "done" /\ Len(mv_df) = 1 /\ SingleExplicitRow(mv_df[1]))
        => SingleViewGraph(MvFullName(mv_df[1]), RowTarget(mv_df[1])[1],
                           ParseSourceTables(mv_df[1].create_table_query, mv_df[1].database))

\* the view d.m with "TO d.s AS SELECT 1 FROM d.r": 3 nodes and 2 edges
C8_Witness ==
    /\ build_pc = "done"
    /\ Len(mv_df) = 1
    /\ SingleExplicitRow(mv_df[1])
    /\ Len(nodes) = 3
    /\ Len(edges) = 2
    /\ target_names = {Dotted(DbD, TblS)}

\* view w writes the table that view r, another view, reads
Chained(w, r) ==
    /\ MvFullName(w) # MvFullName(r)
    /\ RowTarget(w)[1] \in Range(MergedSources(r))

ChainedGraph(w, r) ==
    /\ NodeCount(nodes, RowTarget(w)[1]) = 1
    /\ RowTarget(w)[1] \in target_names
    /\ HasEdge(edges, MvFullName(w), RowTarget(w)[1], MvFullName(w))
    /\ HasEdge(edges, RowTarget(w)[1], MvFullName(r), MvFullName(r))
    /\ WeaklyConnected(Keys(nodes), edges)

\* C9: when one view writes to a table and another view reads from that table, in
\* either order of the two view records, the table is a single node, a member of
\* target_names, the target of the writing view's edge and the source of the reading
\* view's edge, and all nodes of the two views form one weakly-connected graph.
C9_ChainedViews ==
    (build_pc = "done" /\ Len(mv_df) = 2) =>
        /\ Chained(mv_df[1], mv_df[2]) => ChainedGraph(mv_df[1], mv_df[2])
        /\ Chained(mv_df[2], mv_df[1]) => ChainedGraph(mv_df[2], mv_df[1])

\* the reading view comes first, the writing view second: 5 nodes
C9_Witness ==
    /\ build_pc = "done"
    /\ Len(mv_df) = 2
    /\ Chained(mv_df[2], mv_df[1])
    /\ ~Chained(mv_df[1], mv_df[2])
    /\ Len(nodes) = 5
    /\ Len(edges) = 4

(***************************************************************************)
(* Claims about get_connected_subgraph and calculate_positions, checked    *)
(* under SpecLayout and SpecLayoutFair.                                    *)
(***************************************************************************)
\* C2, as claimed: get_connected_subgraph returns selected_id together with all nodes
\* reachable from it by following edges forward and all nodes reachable from it by
\* following edges backward, the two traversals being independent.
C2_IndependentTraversals ==
    phase = "subgraph" =>
        connected = Reach({selected_id[1]}, edges, TRUE) \cup Reach({selected_id[1]}, edges, FALSE)

C7_OrderIndependent ==
    phase = "done" =>
        \A order \in Orders(Keys(nodes)) :
            Range(Layout(nodes, edges, levels, order)) = Range(positions)

(***************************************************************************)
(* Claims about the parser, checked under SpecParse.                       *)
(***************************************************************************)
\* C10: parse_target_table always returns; when the text has a TO <table-ref> clause
\* (case-insensitive) it returns the qualified table-ref of the leftmost one and
\* False; without a TO clause it returns database + ".BQ.inner." + view_name + "BQ"
\* (BQ the backquote) and True.
C10_TargetTable ==
    /\ (target_out # NotRun /\ HasToClause(create_query)) =>
          \E r \in FirstToRefs(create_query) :
              target_out = Some(<<Qualified(r, mv_database), FALSE>>)
    /\ (target_out # NotRun /\ ~HasToClause(create_query)) =>
          target_out = Some(<<InnerName(mv_database, mv_name), TRUE>>)

\* a lowercase TO clause with a backquoted reference was parsed to d.q
C10_Witness ==
    /\ target_out = Some(<<<<"d", ".", "q">>, FALSE>>)
    /\ Contains(create_query, Backtick)
    /\ Contains(create_query, "o")

(***************************************************************************)
(* parse_source_tables on texts with a list of FROM and JOIN clauses: the  *)
(* text is a head with a TO clause and AS SELECT, followed by at most      *)
(* MaxClauses clauses " KW ref".                                           *)
(***************************************************************************)
MaxClauses == 3

SelectHead ==
    <<"V", " ", "T", "O", " ", "x", " ", "A", "S", " ", "S", "E", "L", "E", "C", "T", " ", "1">>

ClauseKeywords == {KwFROM, <<"j", "o", "i", "n">>}

ClauseRefs ==
    { <<"t">>,
      <<Backtick, "t", Backtick>>,
      <<"d", ".", "s">>,
      <<"s">>,
      <<Backtick, "p", ".", "q", Backtick>> }

SelectClause(kw, ref) == <<" ">> \o kw \o <<" ">> \o ref

SelectClauses == {SelectClause(kw, ref) : kw \in ClauseKeywords, ref \in ClauseRefs}

SelectTexts ==
    {SelectHead \o Concat(cs) : cs \in UNION {[1..n -> SelectClauses] : n \in 0..MaxClauses}}

SelectInit ==
    /\ create_query \in SelectTexts
    /\ mv_database \in ViewDatabases
    /\ mv_name = <<"v">>
    /\ sources_out = NotRun
    /\ target_out = NotRun
    /\ BuildIdle /\ GraphEmpty /\ LayoutIdle

SpecSelect == SelectInit /\ [][ParseNext]_vars

(***************************************************************************)
(* Claims about parse_source_tables, checked under SpecSelect.             *)
(***************************************************************************)
\* the words of t, split at single spaces
RECURSIVE WordsOf(_)
WordsFrom(parts) == IF Len(parts) = 1 THEN parts ELSE <<parts[1]>> \o WordsOf(parts[2])
WordsOf(t) ==
    IF t = <<>> THEN <<>>
    ELSE WordsFrom(SplitAt(t, MinOrZero({i \in 1..Len(t) : t[i] = " "})))

\* the words after the head of a text of SelectTexts: keyword, ref, keyword, ref, ...
ClauseWords(t) == WordsOf(SubSeq(t, Len(SelectHead) + 2, Len(t)))

\* the clauses of a text of SelectTexts, in the order of the text
ClauseList(t) ==
    [i \in 1..(Len(ClauseWords(t)) \div 2) |->
        SelectClause(ClauseWords(t)[2 * i - 1], ClauseWords(t)[2 * i])]

\* the table-refs of the clauses of a text of SelectTexts
ClauseRefsOf(t) == {ClauseWords(t)[2 * i] : i \in 1..(Len(ClauseWords(t)) \div 2)}

\* the clause lists that hold the same clauses as cl, in any order and with any
\* repetition, up to one clause more than cl has
Rearrangements(cl) ==
    {cl2 \in UNION {[1..n -> Range(cl)] : n \in 0..(Len(cl) + 1)} : Range(cl2) = Range(cl)}

\* C11: parse_source_tables returns a list in strictly ascending lexicographic order
\* (sorted, no duplicates) that holds the qualified references of the FROM and JOIN
\* clauses, and returns the same list for every text that has the same clauses
\* reordered or repeated.
C11_SortedSetOfSources ==
    sources_out # NotRun =>
        /\ \A i \in 1..(Len(sources_out[1]) - 1) :
              StrLess(sources_out[1][i], sources_out[1][i + 1])
        /\ Range(sources_out[1]) = {Qualified(r, mv_database) : r \in ClauseRefsOf(create_query)}
        /\ \A cl2 \in Rearrangements(ClauseList(create_query)) :
              ParseSourceTables(SelectHead \o Concat(cl2), mv_database) = sources_out[1]

\* three clauses, two of them naming one table in two spellings, the first clause
\* naming the table that sorts last
C11_Witness ==
    /\ sources_out # NotRun
    /\ Len(ClauseList(create_query)) = 3
    /\ Len(sources_out[1]) = 2
    /\ Cardinality(ClauseRefsOf(create_query)) = 3
    /\ Qualified(ClauseWords(create_query)[2], mv_database) = sources_out[1][2]

(***************************************************************************)
(* Further claims about build_lineage, checked under Spec.                 *)
(***************************************************************************)
\* C12: a node created for a source or for a target gets the engine that engine_lookup
\* records for its full_name; without an entry it gets "Source" when created for a
\* source, "target" when created for an explicit target and "implicit" when created
\* for an implicit target; a later discovery as a source or a target leaves the engine
\* as it is.
C12_EngineAtCreation ==
    [][/\ \A k \in Keys(nodes') \ Keys(nodes) :
             ~RegistersView(k) =>
                 DictGet(nodes', k).engine =
                     IF k \in Keys(engine_lookup) THEN DictGet(engine_lookup, k).engine
                     ELSE IF build_pc = "sources" /\ src_idx' = src_idx + 1 THEN "Source"
                     ELSE IF HasToClause(mv_df[row_idx].create_table_query) THEN "target"
                     ELSE "implicit"
       /\ \A k \in Keys(nodes) :
             ~RegistersView(k) => DictGet(nodes', k).engine = DictGet(nodes, k).engine]_vars

\* a target took its engine from the lookup and another target the sentinel "implicit"
C12_Witness ==
    /\ build_pc = "done"
    /\ \E k \in target_names : DictGet(nodes, k).engine = "SummingMergeTree"
    /\ \E k \in target_names : DictGet(nodes, k).engine = "implicit"
    /\ \E i \in 1..Len(nodes) : nodes[i].engine = "MergeTree"

\* C13: in the returned graph target_names is exactly the set of the parsed write
\* targets of the view records, a target that was a node already (another view's
\* source, or a view) included.
C13_TargetNames ==
    build_pc = "done" => target_names = {RowTarget(mv_df[i])[1] : i \in 1..Len(mv_df)}

\* one target is itself a view, registered before it was discovered as a target
C13_Witness ==
    /\ build_pc = "done"
    /\ Cardinality(target_names) = 2
    /\ \E i, j \in 1..Len(mv_df) : i < j /\ MvFullName(mv_df[i]) = RowTarget(mv_df[j])[1]

(***************************************************************************)
(* Claim about the renderer's merge of positions, checked under SpecLayout. *)
(***************************************************************************)
\* C14: in a fresh flow state each node has the cached position if one is recorded for
\* its id, and otherwise the position calculate_positions computed; the merged mapping
\* has exactly the graph's node keys, so cached entries for other ids are dropped.
C14_CachedPositionWins ==
    phase = "rendered" =>
        /\ Keys(flow_positions) = Keys(nodes)
        /\ Len(flow_positions) = Len(nodes)
        /\ \A n \in Keys(nodes) :
              /\ n \in Keys(cached_positions) =>
                    DictGet(flow_positions, n) = DictGet(cached_positions, n)
              /\ n \notin Keys(cached_positions) =>
                    DictGet(flow_positions, n) = DictGet(positions, n)

\* one node keeps its cached position, another gets the computed one, and a cached
\* entry for an id that is no node is dropped
C14_Witness ==
    /\ phase = "rendered"
    /\ Len(nodes) = 3
    /\ Cardinality(Keys(cached_positions) \cap Keys(nodes)) = 1
    /\ Keys(cached_positions) \ Keys(nodes) # {}
    /\ \E n \in Keys(nodes) :
          /\ n \in Keys(cached_positions)
          /\ DictGet(positions, n) # DictGet(cached_positions, n)


(***************************************************************************)
(* The layout engine on graphs one node wider than those of SpecLayout:    *)
(* two nodes of one level have different parents only from four nodes on.  *)
(* The nodes are inserted in ascending or in descending order of their ids.*)
(***************************************************************************)
WideNodeIds == {Dotted(DbD, NodePool[i]) : i \in 1..(MaxNodes + 1)}

Reversed(q) == [i \in 1..Len(q) |-> q[Len(q) + 1 - i]]

WideInit ==
    /\ nodes \in {GraphNodes(SortedStrs(WideNodeIds)),
                  GraphNodes(Reversed(SortedStrs(WideNodeIds)))}
    /\ edges \in UNION {[1..n -> GraphEdges(WideNodeIds)] : n \in 0..MaxEdges}
    /\ mv_names = {}
    /\ target_names = {}
    /\ LayoutIdle /\ BuildIdle /\ ParserIdle

\* one call of calculate_positions
WideNext ==
    \/ StartLevels \/ LoopCall
    \/ LevelMemo \/ LevelCycle \/ LevelRoot \/ LevelEnter \/ LevelCallParent \/ LevelFinish
    \/ Place

SpecLayoutWide == WideInit /\ [][WideNext]_vars

\* the doubled y-coordinate the layout gave to node n
Y2Of(pos, n) == DictGet(pos, n).y2

\* the doubled y-coordinates of the parents of n, one per incoming edge
ParentY2s(pos, es, n) ==
    [i \in 1..Len(Incoming(es, n)) |-> Y2Of(pos, Incoming(es, n)[i])]

\* the mean of p is at most the mean of q; the mean of no value counts as 0
MeanAtMost(p, q) == MeanOf(p)[1] * MeanOf(q)[2] <= MeanOf(q)[1] * MeanOf(p)[2]

\* n and m are nodes of one cluster at the same level, which is not level 0
SameColumn(pos, es, n, m) ==
    /\ m \in UndirectedClosure({n}, es)
    /\ XOf(pos, n) = XOf(pos, m)
    /\ XOf(pos, n) > x_origin

\* C15: on an acyclic graph, of two nodes of one cluster at the same level >= 1 the one
\* placed higher has the smaller, or the same, mean y-coordinate of its parents
C15_ParentMeanOrder ==
    (phase = "done" /\ Acyclic(Keys(nodes), edges)) =>
        \A n \in Keys(nodes) : \A m \in Keys(nodes) :
            (SameColumn(positions, edges, n, m) /\ Y2Of(positions, n) < Y2Of(positions, m))
                => MeanAtMost(ParentY2s(positions, edges, n), ParentY2s(positions, edges, m))


\* get_level(n) has been called while an earlier call on n is still being resolved: the
\* branch of lines 70-72 is about to run
EncounteredAgain(n) ==
    /\ phase = "levels"
    /\ call = Some(n)
    /\ n \notin Keys(levels)
    /\ n \in visiting

\* the doubled y-coordinates of a layout, as a set and in dict order
Y2Set(pos) == {pos[i].y2 : i \in 1..Len(pos)}
Y2List(pos) == [i \in 1..Len(pos) |-> pos[i].y2]

\* C17 as stated: the y-coordinates of a non-empty layout add up to 0
C17_MeanZero ==
    (phase = "done" /\ nodes # <<>>) => Sum(Y2List(positions)) = 0

\* C17, corrected: the layout of a non-empty graph is centred on the midpoint of its
\* vertical extent, the smallest and the largest y-coordinate add up to 0
C17_MidpointZero ==
    (phase = "done" /\ nodes # <<>>) =>
        \E top \in Y2Set(positions) : \E bottom \in Y2Set(positions) :
            /\ \A y2 \in Y2Set(positions) : top <= y2 /\ y2 <= bottom
            /\ top + bottom = 0

\* a layout that was shifted (it has two rows at least) and whose y-coordinates do not
\* add up to 0
C17_Witness ==
    /\ phase = "done"
    /\ Cardinality(Y2Set(positions)) >= 2
    /\ Sum(Y2List(positions)) # 0


\* the fixed distance between the bands of two clusters (line 142)
ClusterDistance == cluster_gap + y_spacing

\* n is in a cluster that comes before the cluster of m: another cluster, with the
\* smaller smallest node id
ClusterBefore(es, n, m) ==
    /\ m \notin UndirectedClosure({n}, es)
    /\ StrLess(StrMin(UndirectedClosure({n}, es)), StrMin(UndirectedClosure({m}, es)))

IsUndirectedPath(p, es) ==
    \A i \in 1..(Len(p) - 1) : IsEdge(es, p[i], p[i + 1]) \/ IsEdge(es, p[i + 1], p[i])

\* n and m are joined by an undirected path over the nodes N (a node is joined to itself)
Joined(n, m, N, es) ==
    \E k \in 1..Cardinality(N) :
        \E p \in [1..k -> N] : p[1] = n /\ p[k] = m /\ IsUndirectedPath(p, es)

\* the list of sets cs puts every node of N in exactly one set, and two nodes in the
\* same set iff they are joined
IsComponentPartition(cs, N, es) ==
    /\ \A i \in 1..Len(cs) : cs[i] # {} /\ cs[i] \subseteq N
    /\ \A n \in N : Cardinality({i \in 1..Len(cs) : n \in cs[i]}) = 1
    /\ \A n \in N : \A m \in N :
          (\E i \in 1..Len(cs) : n \in cs[i] /\ m \in cs[i]) <=> Joined(n, m, N, es)

\* C19: _find_clusters partitions the nodes into the weakly-connected components of the
\* graph, cyclic or not
C19_ClustersAreComponents ==
    phase = "done" => IsComponentPartition(FindClusters(nodes, edges), Keys(nodes), edges)

\* two clusters, one of them held together only by following an edge backwards and a
\* cycle in the graph
C19_Witness ==
    /\ phase = "done"
    /\ Len(FindClusters(nodes, edges)) = 2
    /\ ~Acyclic(Keys(nodes), edges)
    /\ \E n \in Keys(nodes) : \E m \in Keys(nodes) :
          /\ n # m
          /\ Joined(n, m, Keys(nodes), edges)
          /\ m \notin Reach({n}, edges, TRUE)
          /\ n \notin Reach({m}, edges, TRUE)


(***************************************************************************)
(* The level computation of calculate_positions as a function of the node  *)
(* order and the edges, for claims that compare two calls. The visiting    *)
(* set holds the nodes of the calls in progress, so it is passed down.     *)
(***************************************************************************)
\* what a get_level call leaves: the value returned and the levels dict
LevelResult(ret, lv) == [ret |-> ret, lv |-> lv]

\* line 79: levels[node_id] = max_parent_level + 1, r being what the parents left
FinishLevel(n, r) == LevelResult(r.ret + 1, SetLevel(r.lv, n, r.ret + 1))

RECURSIVE GetLevel(_, _, _, _)
RECURSIVE MaxParentLevel(_, _, _, _, _)
\* line 78: the next parent's level is taken into the max
MaxParentNext(rest, r, vis, es, best) == MaxParentLevel(rest, r.lv, vis, es, Max2(best, r.ret))

\* line 78: max(get_level(parent) for parent in incoming), the parents in edge order
MaxParentLevel(parents, lv, vis, es, best) ==
    IF parents = <<>> THEN LevelResult(best, lv)
    ELSE MaxParentNext(Tail(parents), GetLevel(Head(parents), lv, vis, es), vis, es, best)

\* lines 67-81: get_level(n)
GetLevel(n, lv, vis, es) ==
    IF n \in Keys(lv) THEN LevelResult(Level(lv, n), lv)
    ELSE IF n \in vis THEN LevelResult(0, SetLevel(lv, n, 0))
    ELSE IF Incoming(es, n) = <<>> THEN LevelResult(0, SetLevel(lv, n, 0))
    ELSE FinishLevel(n, MaxParentLevel(Incoming(es, n), lv, vis \cup {n}, es, -1))

\* lines 83-84: get_level on every node, in the order of the nodes mapping
RECURSIVE LevelsFrom(_, _, _)
LevelsFrom(ids, lv, es) ==
    IF ids = <<>> THEN lv
    ELSE LevelsFrom(Tail(ids), GetLevel(Head(ids), lv, {}, es).lv, es)

\* calculate_positions on the nodes d inserted in the order ids, for one iteration
\* order of the sets
PositionsOf(d, ids, es, order) ==
    Layout([i \in 1..Len(ids) |-> DictGet(d, ids[i])], es, LevelsFrom(ids, <<>>, es), order)

\* the function agrees with the steps: the levels the actions have computed are those
\* of LevelsFrom
LevelsAgree == phase = "done" => levels = LevelsFrom(KeyList(nodes), <<>>, edges)

\* the results calculate_positions can give for the nodes d inserted in the order ids
Outcomes(d, ids, es) == {Range(PositionsOf(d, ids, es, order)) : order \in Orders(Keys(d))}

\* C20: the positions returned do not depend on the insertion order of the nodes: what
\* one insertion order has given, every other insertion order can give
C20_InsertionOrderIrrelevant ==
    phase = "done" =>
        \A ids \in Orders(Keys(nodes)) : Range(positions) \in Outcomes(nodes, ids, edges)

\* C20 without cycles: on an acyclic graph the insertion order changes nothing
C20_AcyclicOrderIrrelevant ==
    (phase = "done" /\ Acyclic(Keys(nodes), edges)) =>
        \A ids \in Orders(Keys(nodes)) : Range(positions) \in Outcomes(nodes, ids, edges)

\* the layout the call in progress returns has n at level 0, whatever the iteration
\* order of the sets
ReturnedAtLevelZero(n) ==
    \A order \in Orders(Keys(nodes)) :
        XOf(PositionsOf(nodes, KeyList(nodes), edges, order), n) = x_origin

\* the layout the call in progress returns has n at level 1 or further right
ReturnedRightOfRoots(n) ==
    \A order \in Orders(Keys(nodes)) :
        XOf(PositionsOf(nodes, KeyList(nodes), edges, order), n) >= x_origin + x_spacing

\* C16: a node encountered again while its own level is being resolved is assigned
\* level 0 at that step, and it is at level 0 (x = 80) in the layout that is returned
C16_CycleNodeAtLevelZero ==
    /\ [][\A n \in NodeIds :
            (EncounteredAgain(n) /\ call' # call) => Level(levels', n) = 0]_vars
    /\ [](\A n \in NodeIds : EncounteredAgain(n) => ReturnedAtLevelZero(n))

\* C16, what the code does: the level 0 of the cycle branch is replaced, when the call
\* that is still being resolved finishes, by a level of at least 1
C16_CycleNodeOverwritten ==
    \A n \in NodeIds : EncounteredAgain(n) => ReturnedRightOfRoots(n)

\* the layout that is returned is the one PositionsOf gives
PositionsAgree ==
    phase = "done" => Range(positions) \in Outcomes(nodes, KeyList(nodes), edges)


(***************************************************************************)
(* The parser on texts built around the token pair AS ... SELECT: a head,  *)
(* AS, what stands between the two tokens, SELECT, and a tail.             *)
(***************************************************************************)
AsTokens == {<<"A", "S">>, <<"a", "s">>}

SelectTokens == {<<"S", "E", "L", "E", "C", "T">>, <<"S", "e", "l", "e", "c", "t">>}

AsSelectGaps ==
    { <<" ">>,
      <<"\n">>,
      <<" ", "\n", "\t">>,
      <<>>,
      <<"(">>,
      <<" ", "(">>,
      <<"\n", "(", "\n">>,
      <<" ", "x", " ">> }

AsSelectHeads ==
    { <<"V", " ">>,
      <<"V", "x">>,
      <<"V", " ", "F", "R", "O", "M", " ", "h", " ">>,
      <<"a", "s", " ", "s", "e", "l", "e", "c", "t", " ", "1", " ", "J", "O", "I", "N", " ", "h", " ">> }

AsSelectTails ==
    { <<>>,
      <<" ", "1", " ", "F", "R", "O", "M", " ", "t">>,
      <<" ", "1", " ", "f", "r", "o", "m", " ", "d", ".", "s", " ", "j", "o", "i", "n", " ", "u", ")">>,
      <<"x", " ", "F", "R", "O", "M", " ", "t">> }

AsSelectTexts ==
    {h \o a \o g \o s \o t :
        h \in AsSelectHeads, a \in AsTokens, g \in AsSelectGaps, s \in SelectTokens,
        t \in AsSelectTails}

AsSelectInit ==
    /\ create_query \in AsSelectTexts
    /\ mv_database \in ViewDatabases
    /\ mv_name = <<"v">>
    /\ sources_out = NotRun
    /\ target_out = NotRun
    /\ BuildIdle /\ GraphEmpty /\ LayoutIdle

SpecAsSelect == AsSelectInit /\ [][ParseNext]_vars

\* SELECT stands as a word at t[s..]
SelectWordAt(t, s) == KeywordAt(t, s, KwSELECT) /\ WordBoundary(t, s + Len(KwSELECT))

\* AS stands as a word at t[i..] and SELECT as a word after it, with one or more
\* whitespace characters and nothing else between the two
AsSpaceSelectAt(t, i) ==
    /\ KeywordAt(t, i, KwAS)
    /\ \E s \in (i + Len(KwAS) + 1)..Len(t) :
          SpaceRun(t, i + Len(KwAS), s - 1) /\ SelectWordAt(t, s)

\* AS stands as a word at t[i..] and SELECT as a word after it, with one or more
\* characters of any kind between the two
AsAnySelectAt(t, i) ==
    /\ KeywordAt(t, i, KwAS)
    /\ WordBoundary(t, i + Len(KwAS))
    /\ \E s \in (i + Len(KwAS) + 1)..Len(t) : SelectWordAt(t, s)

\* the sources reported when the select part starts at the first position of starts,
\* none when there is no such position
ReportedFrom(t, starts, db) ==
    IF starts = {} THEN <<>>
    ELSE SourcesOfSelect(SubSeq(t, MinOrZero(starts), Len(t)), db)

\* C21 as stated: the select part starts at the first AS that is followed by SELECT
\* with whitespace or any other characters between
C21_AnyCharactersBetween ==
    sources_out # NotRun =>
        sources_out = Some(ReportedFrom(create_query,
                                        {i \in 1..Len(create_query) : AsAnySelectAt(create_query, i)},
                                        mv_database))

\* C21, corrected: the select part starts at the first AS that is followed by SELECT
\* with whitespace only between (newlines included), in any case; the FROM and JOIN
\* references from there on are reported, and none when there is no such pair
C21_WhitespaceBetween ==
    sources_out # NotRun =>
        sources_out = Some(ReportedFrom(create_query,
                                        {i \in 1..Len(create_query) : AsSpaceSelectAt(create_query, i)},
                                        mv_database))

\* a call on a text with an opening parenthesis between AS and SELECT and a FROM clause
\* after it: nothing is reported
C21_Witness ==
    /\ sources_out = Some(<<>>)
    /\ \E i \in 1..Len(create_query) :
          /\ AsAnySelectAt(create_query, i)
          /\ create_query[i + Len(KwAS)] = "("
          /\ ClausesOf(SubSeq(create_query, i, Len(create_query)), KwFROM) # {}


\* the names of the explicit dependency pairs of a row, in their given order; none when
\* a field is no list
DepList(row) ==
    IF row.dependencies_database.is_list /\ row.dependencies_table.is_list
    THEN [i \in (DOMAIN row.dependencies_database.items) \cap (DOMAIN row.dependencies_table.items)
            |-> row.dependencies_database.items[i] \o <<".">> \o row.dependencies_table.items[i]]
    ELSE <<>>

\* the elements of q from index i on that are not in seen, each once, in order
RECURSIVE NewOnce(_, _, _)
NewOnce(q, i, seen) ==
    IF i > Len(q) THEN <<>>
    ELSE IF q[i] \in seen THEN NewOnce(q, i + 1, seen)
    ELSE <<q[i]>> \o NewOnce(q, i + 1, seen \cup {q[i]})

\* the sources of a view in discovery order: the parsed ones, then the new dependencies
DiscoveredSources(row) ==
    ParseSourceTables(row.create_table_query, row.database)
        \o NewOnce(DepList(row), 1, Range(ParseSourceTables(row.create_table_query, row.database)))

\* the edges one view gives: source -> view for each source, then view -> target
EdgesOfView(row, srcs, view) ==
    [i \in 1..Len(srcs) |-> [source |-> srcs[i], target |-> view, mv_name |-> view]]
        \o << [source |-> view, target |-> RowTarget(row)[1], mv_name |-> view] >>

RECURSIVE EdgesOfViews(_, _)
EdgesOfViews(df, i) ==
    IF i > Len(df) THEN <<>>
    ELSE EdgesOfView(df[i], DiscoveredSources(df[i]), df[i].database \o <<".">> \o df[i].name)
             \o EdgesOfViews(df, i + 1)

\* C22: edges are only ever appended, and the list returned holds, view by view in input
\* order, one edge source -> view per merged source (the parsed sources in ascending
\* order, then the new dependency pairs in their order, each once) and last the one
\* edge view -> target
C22_DiscoveryOrder ==
    /\ [](build_pc = "done" => edges = EdgesOfViews(mv_df, 1))
    /\ [][Len(edges') >= Len(edges) /\ SubSeq(edges', 1, Len(edges)) = edges]_vars

\* two views, the first with the dependencies t, r, t of which r is also parsed
C22_Witness ==
    /\ build_pc = "done"
    /\ Len(mv_df) = 2
    /\ mv_df[1].dependencies_table = ListOf(<<TblT, TblR, TblT>>)
    /\ Len(DiscoveredSources(mv_df[1])) = 2
    /\ Len(DiscoveredSources(mv_df[2])) = 2
    /\ Len(edges) = 6


\* C23: every member of mv_names is a node, one node, whose engine is
\* "MaterializedView": while the graph is built and in the graph returned
C23_ViewsAreViewNodes ==
    \A k \in mv_names :
        /\ NodeCount(nodes, k) = 1
        /\ DictGet(nodes, k).engine = "MaterializedView"

\* the second view's name was discovered before, as the target of the first view, and
\* the schema lookup gives it another engine
C23_Witness ==
    /\ build_pc = "done"
    /\ Len(mv_df) = 2
    /\ mv_df[1].name # mv_df[2].name
    /\ HasToClause(mv_df[1].create_table_query)
    /\ RowTarget(mv_df[1])[1] = mv_df[2].database \o <<".">> \o mv_df[2].name
    /\ \E i \in 1..Len(engine_lookup) :
          /\ engine_lookup[i].key = RowTarget(mv_df[1])[1]
          /\ engine_lookup[i].engine = "MergeTree"


\* C24: every edge was produced by a view: its mv_name is a member of mv_names and is
\* one of its two ends, the target of a source -> view edge or the source of a
\* view -> target edge
C24_EdgesProducedByViews ==
    \A i \in 1..Len(edges) :
        /\ edges[i].mv_name \in mv_names
        /\ edges[i].mv_name = edges[i].target \/ edges[i].mv_name = edges[i].source

\* a graph with an edge from a table that is no view, an edge into a table that is no
\* view and an edge between two views
C24_Witness ==
    /\ build_pc = "done"
    /\ \E i \in 1..Len(edges) : edges[i].source \notin mv_names
    /\ \E i \in 1..Len(edges) : edges[i].target \notin mv_names
    /\ \E i \in 1..Len(edges) :
          /\ edges[i].source \in mv_names
          /\ edges[i].target \in mv_names
          /\ edges[i].source # edges[i].target


(***************************************************************************)
(* get_connected_subgraph on its own, on the graphs of SpecLayout. It is   *)
(* sequential code that waits on nothing: once called, it goes on taking   *)
(* its next step.                                                          *)
(***************************************************************************)
SubgraphStep == SubgraphExpand \/ SubgraphTurn \/ SubgraphReturn

SubgraphNext == SubgraphStart \/ SubgraphExpand \/ SubgraphTurn \/ SubgraphReturn

SpecSubgraph == LayoutInit /\ [][SubgraphNext]_vars /\ WF_vars(SubgraphStep)

\* the steps give what the call as a whole gives
SubgraphAgree ==
    phase = "subgraph" => connected = ConnectedSubgraph(edges, selected_id[1])

\* C25: get_connected_subgraph terminates, and no node is put on the queue of one
\* direction twice
C25_TerminatesEnqueuedOnce ==
    /\ [](\A i \in 1..Len(enqueued) : \A j \in 1..Len(enqueued) :
              i # j => enqueued[i] # enqueued[j])
    /\ (phase = "bfs") ~> (phase = "subgraph")

\* a call has returned on a graph with a cycle and a repeated edge, and a node that
\* the repeated edge reaches was put on the queue
C25_Witness ==
    /\ phase = "subgraph"
    /\ ~Acyclic(Keys(nodes), edges)
    /\ \E i \in 1..Len(edges) : \E j \in 1..Len(edges) :
          /\ i # j
          /\ edges[i] = edges[j]
          /\ \E k \in 1..Len(enqueued) :
                /\ enqueued[k][2] # selected_id[1]
                /\ enqueued[k][2] \in {edges[i].source, edges[i].target}


\* C26: connectivity is symmetric: a node b is in the set returned for a node a exactly
\* when a is in the set returned for b
C26_ConnectivitySymmetric ==
    (phase = "subgraph" /\ selected_id[1] \in Keys(nodes)) =>
        \A b \in Keys(nodes) :
            b \in connected <=> selected_id[1] \in ConnectedSubgraph(edges, b)

\* C26 without cycles: on an acyclic graph connectivity is symmetric
C26_AcyclicSymmetric ==
    (phase = "subgraph" /\ selected_id[1] \in Keys(nodes) /\ Acyclic(Keys(nodes), edges)) =>
        \A b \in Keys(nodes) :
            b \in connected <=> selected_id[1] \in ConnectedSubgraph(edges, b)


\* the nodes of the cluster of n that have the level of n
ColumnOf(n, lv, es) == {m \in UndirectedClosure({n}, es) : Level(lv, m) = Level(lv, n)}

\* the doubled y-coordinates of the nodes S are pairwise distinct and go down from the
\* topmost in steps of y_spacing
EvenlySpaced(pos, S) ==
    \E top \in {Y2Of(pos, m) : m \in S} :
        /\ {Y2Of(pos, m) : m \in S} = {top + 2 * y_spacing * k : k \in 0..(Cardinality(S) - 1)}
        /\ Cardinality({Y2Of(pos, m) : m \in S}) = Cardinality(S)

\* C27: no two nodes get the same position: in a cluster the nodes of one level share x
\* and are y_spacing apart, nodes of different levels differ in x, and nodes of
\* different clusters differ in y
C27_DistinctPositions ==
    phase = "done" =>
        \A n \in Keys(nodes) :
            /\ EvenlySpaced(positions, ColumnOf(n, levels, edges))
            /\ \A m \in Keys(nodes) \ {n} :
                  /\ <<XOf(positions, n), Y2Of(positions, n)>>
                        # <<XOf(positions, m), Y2Of(positions, m)>>
                  /\ m \in UndirectedClosure({n}, edges) =>
                        (XOf(positions, n) = XOf(positions, m)
                            <=> Level(levels, n) = Level(levels, m))
                  /\ m \notin UndirectedClosure({n}, edges) =>
                        Y2Of(positions, n) # Y2Of(positions, m)

\* a cluster with two levels and two rows in one of them, and a second cluster
C27_Witness ==
    /\ phase = "done"
    /\ \E n \in Keys(nodes) :
          /\ Cardinality(ColumnOf(n, levels, edges)) = 2
          /\ \E m \in UndirectedClosure({n}, edges) : Level(levels, m) # Level(levels, n)
          /\ Keys(nodes) \ UndirectedClosure({n}, edges) # {}


\* the inner table of the view name in database db, as it is written in a DDL text
InnerRef(db, name) ==
    db \o <<".", Backtick, ".", "i", "n", "n", "e", "r", ".">> \o name \o <<Backtick>>

\* the DDL text t has a select part with a FROM or JOIN clause whose table-ref is r
ReadsRef(t, r) ==
    /\ HasAsSelect(t)
    /\ \E c \in ClausesOf(t, KwFROM) \cup ClausesOf(t, KwJOIN) : SubSeq(t, c[2], c[3]) = r

\* the graph links the view v to the view w through one node
LinkedThroughOneNode(es, v, w) ==
    \E t \in {es[k].target : k \in 1..Len(es)} :
        /\ \E k \in 1..Len(es) : es[k].source = v /\ es[k].target = t
        /\ \E k \in 1..Len(es) : es[k].source = t /\ es[k].target = w

\* C28: when a view V without a TO clause is followed or preceded by another view that reads
\* the inner table of V, written db.(backquote).inner.V(backquote), the source name the
\* parser gives to the second view is the implicit target name it gives to V, and the
\* graph links V to the second view through that one node
C28_InnerTableOneNode ==
    build_pc = "done" =>
        \A i \in 1..Len(mv_df) : \A j \in 1..Len(mv_df) :
            ( /\ mv_df[i].name # mv_df[j].name
              /\ ~HasToClause(mv_df[i].create_table_query)
              /\ ReadsRef(mv_df[j].create_table_query, InnerRef(mv_df[i].database, mv_df[i].name)) )
            => /\ RowTarget(mv_df[i])[1]
                    \in Range(ParseSourceTables(mv_df[j].create_table_query, mv_df[j].database))
               /\ LinkedThroughOneNode(edges, mv_df[i].database \o <<".">> \o mv_df[i].name,
                                       mv_df[j].database \o <<".">> \o mv_df[j].name)


(***************************************************************************)
(* render_lineage_graph over the life of a session: st.session_state lasts *)
(* from one run of the script to the next, the graph is built again at the *)
(* start of every run, and the graph component answers with the state of   *)
(* the graph as the browser has it.                                        *)
(***************************************************************************)
MaxRenders == 4

\* the graphs the page can hand to the renderer: a chain, the chain grown by one view,
\* and the graph after the first table is gone
RenderLineages ==
    { [ids |-> <<Dotted(DbD, <<"a">>), Dotted(DbD, <<"b">>)>>,
       edges |-> <<LineageEdge(Dotted(DbD, <<"a">>), Dotted(DbD, <<"b">>), Dotted(DbD, <<"b">>))>>],
      [ids |-> <<Dotted(DbD, <<"a">>), Dotted(DbD, <<"b">>), Dotted(DbD, <<"c">>)>>,
       edges |-> <<LineageEdge(Dotted(DbD, <<"a">>), Dotted(DbD, <<"b">>), Dotted(DbD, <<"b">>)),
                   LineageEdge(Dotted(DbD, <<"b">>), Dotted(DbD, <<"c">>), Dotted(DbD, <<"c">>))>>],
      [ids |-> <<Dotted(DbD, <<"b">>), Dotted(DbD, <<"c">>)>>,
       edges |-> <<LineageEdge(Dotted(DbD, <<"c">>), Dotted(DbD, <<"b">>), Dotted(DbD, <<"b">>))>>] }

\* lines 191-197: the highlight of this call; a highlight that is no node of the graph
\* is dropped
HighlightNode(highlight, d) ==
    IF highlight # None /\ highlight[1] # <<>> /\ highlight[1] \in Keys(d) THEN highlight
    ELSE None

\* line 194: connected stays None without a highlight
ConnectedOf(h, es) == IF h = None THEN None ELSE Some(ConnectedSubgraph(es, h[1]))

\* line 200: f"_lineage_state_{highlight_node}"
StateKey(h) ==
    <<"_", "l", "i", "n", "e", "a", "g", "e", "_", "s", "t", "a", "t", "e", "_">>
        \o (IF h = None THEN <<"N", "o", "n", "e">> ELSE h[1])

\* str(i) of a small int
DecimalDigits == <<"0", "1", "2", "3", "4", "5", "6", "7", "8", "9">>

RECURSIVE StrOfInt(_)
StrOfInt(i) ==
    IF i < 10 THEN <<DecimalDigits[i + 1]>>
    ELSE StrOfInt(i \div 10) \o <<DecimalDigits[(i % 10) + 1]>>

\* line 129: positions.get(full_name, (0, 0))
PositionOrOrigin(pos, node_id) ==
    IF node_id \in Keys(pos) THEN DictGet(pos, node_id) ELSE Position(node_id, 0, 0)

\* lines 76-145: the flow node of one graph node
FlowNode(node_id, pos, conn, h) ==
    [key |-> node_id,
     x |-> PositionOrOrigin(pos, node_id).x,
     y2 |-> PositionOrOrigin(pos, node_id).y2,
     dimmed |-> conn # None /\ node_id \notin conn[1],
     highlighted |-> h = Some(node_id) /\ ~(conn # None /\ node_id \notin conn[1])]

\* lines 147-169: the flow edge of the i-th edge (i from 1 here, from 0 in the id)
FlowEdge(i, edge, conn) ==
    [id |-> <<"e">> \o StrOfInt(i - 1),
     source |-> edge.source,
     target |-> edge.target,
     dimmed |-> conn # None /\ (edge.source \notin conn[1] \/ edge.target \notin conn[1])]

\* _build_flow_state: a StreamlitFlowState is made with no node selected
BuildFlowState(d, es, pos, conn, h) ==
    [nodes |-> [i \in 1..Len(d) |-> FlowNode(d[i].key, pos, conn, h)],
     edges |-> [i \in 1..Len(es) |-> FlowEdge(i, es[i], conn)],
     selected_id |-> None]

FlowIds(fs) == [i \in 1..Len(fs.nodes) |-> fs.nodes[i].key]

FlowLinks(fs) == [i \in 1..Len(fs.edges) |-> <<fs.edges[i].source, fs.edges[i].target>>]

\* lines 204-221: the flow state handed to the component is the one cached for the
\* highlight, or a new one built for the graph of this call
FlowStateOf(state, h, d, es, cached, order) ==
    IF StateKey(h) \in Keys(state) THEN DictGet(state, StateKey(h)).state
    ELSE BuildFlowState(d, es,
                        MergePositions(d, cached, PositionsOf(d, KeyList(d), es, order)),
                        ConnectedOf(h, es), h)

\* what the browser may have done to the nodes it shows: nothing, or the first node
\* was dragged
DraggedNodes(ns) ==
    {ns} \cup {[i \in 1..Len(ns) |-> IF i = 1 THEN [ns[i] EXCEPT !.x = 7, !.y2 = -18] ELSE ns[i]]}

\* the selection the component may report: none, a node it shows, or the selection it
\* reported in the call before
Selections(fs, last) ==
    {None} \cup {Some(fs.nodes[i].key) : i \in 1..Len(fs.nodes)}
           \cup (IF last = None \/ last[1].result = None THEN {}
                 ELSE {last[1].result[1].selected_id})

\* the values streamlit_flow can return for the flow state given: None, or the state
\* of the graph in the browser
ComponentResults(fs, last) ==
    {None} \cup {Some([nodes |-> ns, edges |-> fs.edges, selected_id |-> s]) :
                    ns \in DraggedNodes(fs.nodes), s \in Selections(fs, last)}

\* lines 247-250: pos_dict
PosDict(ns) == [i \in 1..Len(ns) |-> Position(ns[i].key, ns[i].x, ns[i].y2)]

\* st.session_state.pop(key, None)
RECURSIVE DictPop(_, _)
DictPop(d, k) ==
    IF d = <<>> THEN <<>>
    ELSE IF Head(d).key = k THEN DictPop(Tail(d), k)
    ELSE <<Head(d)>> \o DictPop(Tail(d), k)

\* lines 255-259: the click of this call is handled when the skip flag is not set
\* mutant: the skip flag is not looked at
ClickHandled_NoSkip(skip, result) == result # None /\ result[1].selected_id # None

ClickHandled(skip, result) == ~skip /\ result # None /\ result[1].selected_id # None

\* lines 260-263: the highlight after the call
HighlightAfter(skip, h, result) ==
    IF ~ClickHandled(skip, result) THEN h
    ELSE IF result[1].selected_id = h THEN None
    ELSE result[1].selected_id

\* lines 221, 252 and 264: the cached flow states after the call
StatesAfter(state, skip, h, fs, result) ==
    IF ClickHandled(skip, result) THEN DictPop(state, StateKey(h))
    ELSE DictSet(state, [key |-> StateKey(h),
                         state |-> IF result = None THEN fs ELSE result[1]])

\* the call of render_lineage_graph with highlight h, flow state fs handed to the
\* component and result returned by it
RenderReturn(h, fs, result, order) ==
    /\ flow_positions' =
          IF StateKey(h) \in Keys(lineage_state) THEN flow_positions
          ELSE MergePositions(nodes, cached_positions,
                              PositionsOf(nodes, KeyList(nodes), edges, order))
    /\ cached_positions' = IF result = None THEN cached_positions ELSE PosDict(result[1].nodes)
    /\ ever_rendered' = TRUE
    /\ lineage_skip_result' = ClickHandled(lineage_skip_result, result)
    /\ lineage_highlight' = HighlightAfter(lineage_skip_result, h, result)
    /\ lineage_state' = StatesAfter(lineage_state, lineage_skip_result, h, fs, result)
    /\ rerun' = IF ClickHandled(lineage_skip_result, result) THEN "click" ELSE "none"
    /\ last_render' = Some([ids |-> KeyList(nodes),
                            links |-> [i \in 1..Len(edges) |-> <<edges[i].source, edges[i].target>>],
                            highlight |-> lineage_highlight,
                            skip |-> lineage_skip_result,
                            by |-> rerun,
                            flow_state |-> fs,
                            cached |-> StateKey(h) \in Keys(lineage_state),
                            fit_view |-> ~ever_rendered,
                            result |-> result,
                            returned |-> h])
    /\ render_count' = render_count + 1

\* one call of render_lineage_graph(lineage)
RenderLineageGraph ==
    /\ phase = "idle"
    /\ render_count < MaxRenders
    /\ \E order \in Orders(Keys(nodes)) :
          \E result \in ComponentResults(
                           FlowStateOf(lineage_state, HighlightNode(lineage_highlight, nodes),
                                       nodes, edges, cached_positions, order), last_render) :
              RenderReturn(HighlightNode(lineage_highlight, nodes),
                           FlowStateOf(lineage_state, HighlightNode(lineage_highlight, nodes),
                                       nodes, edges, cached_positions, order),
                           result, order)
    /\ UNCHANGED <<phase, levels, visiting, stack, call, next_idx, positions, selected_id, connected>>
    /\ UNCHANGED bfsVars
    /\ UNCHANGED <<parserVars, buildVars, graphVars>>

\* pages/lineage.py lines 121-132: the Clear highlight button, enabled while the
\* highlight is a node of the graph, is pressed after a run has ended
ClearHighlight ==
    /\ phase = "idle"
    /\ rerun = "none"
    /\ ever_rendered
    /\ HighlightNode(lineage_highlight, nodes) # None
    /\ lineage_highlight' = None
    /\ lineage_skip_result' = TRUE
    /\ rerun' = "clear"
    /\ UNCHANGED <<lineage_state, ever_rendered, last_render, render_count>>
    /\ UNCHANGED <<phase, levels, visiting, stack, call, next_idx, positions, selected_id, connected>>
    /\ UNCHANGED <<cached_positions, flow_positions, bfsVars>>
    /\ UNCHANGED <<parserVars, buildVars, graphVars>>

\* a data refresh: the run that comes next builds the graph from other views
RefreshLineage ==
    /\ phase = "idle"
    /\ \E g \in RenderLineages :
          /\ g.ids # KeyList(nodes)
          /\ nodes' = GraphNodes(g.ids)
          /\ edges' = g.edges
    /\ UNCHANGED <<mv_names, target_names>>
    /\ UNCHANGED <<parserVars, buildVars, layoutVars>>

RenderInit ==
    /\ \E g \in RenderLineages :
          /\ nodes = GraphNodes(g.ids)
          /\ edges = g.edges
    /\ mv_names = {}
    /\ target_names = {}
    /\ LayoutIdle /\ BuildIdle /\ ParserIdle

RenderNext == RenderLineageGraph \/ ClearHighlight \/ RefreshLineage

SpecRender == RenderInit /\ [][RenderNext]_vars


\* a step that is a call of render_lineage_graph
IsRender == render_count' # render_count

\* C29 as stated: on a render where the skip flag is set, the flag is cleared and the
\* highlight is left as it was, whatever the component reports; so the rerun that a
\* click or Clear highlight has triggered leaves the highlight where that action put it
C29_ClickAppliedOnce ==
    /\ [][(IsRender /\ lineage_skip_result)
            => (lineage_skip_result' = FALSE /\ lineage_highlight' = lineage_highlight)]_vars
    /\ [][(IsRender /\ rerun # "none") => lineage_highlight' = lineage_highlight]_vars

\* C29: on a render where the skip flag is set, the flag is cleared and the selection
\* the component reports is ignored: a highlight that is a node of the graph of this call
\* is left as it was and one that is no node of it is dropped; a rerun is pending only
\* with the flag set, after a click with the highlight the click has toggled and after
\* Clear highlight with no highlight
C29_AppliedOnceOnNode ==
    /\ [][(IsRender /\ lineage_skip_result)
            => /\ lineage_skip_result' = FALSE
               /\ rerun' = "none"
               /\ last_render'[1].returned = lineage_highlight'
               /\ IF lineage_highlight # None /\ lineage_highlight[1] \in Keys(nodes)
                  THEN lineage_highlight' = lineage_highlight
                  ELSE lineage_highlight' = None]_vars
    /\ [](rerun # "none" => lineage_skip_result)
    /\ [](rerun = "clear" => lineage_highlight = None)
    /\ [](rerun = "click"
            => /\ last_render # None
               /\ last_render[1].result # None
               /\ ~last_render[1].skip
               /\ lineage_highlight =
                     (IF last_render[1].result[1].selected_id = last_render[1].returned
                      THEN None ELSE last_render[1].result[1].selected_id))

\* the rerun after a click on a node has been served with the component still reporting
\* that node as selected, and the node is still highlighted
C29_Witness ==
    /\ last_render # None
    /\ last_render[1].by = "click"
    /\ last_render[1].skip
    /\ last_render[1].highlight # None
    /\ last_render[1].result # None
    /\ last_render[1].result[1].selected_id = last_render[1].highlight
    /\ lineage_highlight = last_render[1].highlight
    /\ ~lineage_skip_result


\* the flow state handed to the component in the latest call shows the graph of that call
ShowsGivenGraph(rendered) ==
    /\ Range(FlowIds(rendered.flow_state)) = Range(rendered.ids)
    /\ Len(rendered.flow_state.nodes) = Len(rendered.ids)
    /\ FlowLinks(rendered.flow_state) = rendered.links

\* C30: every render shows the graph it was given: the node ids and the edges of the
\* flow state handed to the graph component are the keys of lineage.nodes and the edges
\* of lineage.edges of that call, also after the graph was rebuilt between two renders
\* with the same highlight
C30_ShowsGivenGraph == last_render # None => ShowsGivenGraph(last_render[1])

\* a render that finds no flow state cached for its highlight shows the graph it was given
C30_BuiltShowsGivenGraph ==
    (last_render # None /\ ~last_render[1].cached) => ShowsGivenGraph(last_render[1])

====
